---- MODULE Spec2Model ----
(***************************************************************************)
(* Model of the qoi-simd codecs: the R variant ("roif", roi.c) and the Q   *)
(* variant ("qoif", qoi.c) with the shared driver of qoi.h.                *)
(*                                                                         *)
(* Bytes are naturals 0..255, a pixel is a record [r, g, b, a], buffers    *)
(* are sequences.  A C index i is the TLA+ index i+1.  Encoders and        *)
(* decoders are operators that follow the C loops statement by statement;  *)
(* the actions apply them to inputs built up by the input actions.         *)
(***************************************************************************)
EXTENDS Integers, Sequences, FiniteSets, TLC

VARIABLES pc, variant, desc, opt, pixels, nseg, enc, alt, req, dec, file, fio

vars == <<pc, variant, desc, opt, pixels, nseg, enc, alt, req, dec, file, fio>>

(***************************************************************************)
(* C integer arithmetic                                                    *)
(***************************************************************************)
\* conversion to unsigned char
UChar(x) == x % 256

\* conversion to signed char (two's complement)
SChar(x) == LET m == x % 256 IN IF m >= 128 THEN m - 256 ELSE m

RECURSIVE OrBits(_, _)
\* a | b bit by bit
OrBits(a, b) ==
  IF a = 0 THEN b
  ELSE IF b = 0 THEN a
  ELSE (IF a % 2 = 1 \/ b % 2 = 1 THEN 1 ELSE 0) + 2 * OrBits(a \div 2, b \div 2)

RECURSIVE AndBits(_, _)
\* a & b bit by bit
AndBits(a, b) ==
  IF a = 0 \/ b = 0 THEN 0
  ELSE (IF a % 2 = 1 /\ b % 2 = 1 THEN 1 ELSE 0) + 2 * AndBits(a \div 2, b \div 2)

\* the two operations on bytes, tabulated
OrTable == [a \in 0..255 |-> [b \in 0..255 |-> OrBits(a, b)] @@ <<>>] @@ <<>>
AndTable == [a \in 0..255 |-> [b \in 0..255 |-> AndBits(a, b)] @@ <<>>] @@ <<>>

RECURSIVE BitOr(_, _)
\* a | b on non-negative 32-bit integers, byte by byte
BitOr(a, b) ==
  IF a < 256 /\ b < 256 THEN OrTable[a][b]
  ELSE OrTable[a % 256][b % 256] + 256 * BitOr(a \div 256, b \div 256)

RECURSIVE BitAnd(_, _)
\* a & b on non-negative 32-bit integers, byte by byte
BitAnd(a, b) ==
  IF a < 256 /\ b < 256 THEN AndTable[a][b]
  ELSE AndTable[a % 256][b % 256] + 256 * BitAnd(a \div 256, b \div 256)

\* 2^n for n < 31
Pow2(n) ==
  << 1, 2, 4, 8, 16, 32, 64, 128, 256, 512, 1024, 2048, 4096, 8192, 16384, 32768,
     65536, 131072, 262144, 524288, 1048576, 2097152, 4194304, 8388608, 16777216,
     33554432, 67108864, 134217728, 268435456, 536870912, 1073741824 >>[n + 1]

\* x << n and x >> n on non-negative integers
Shl(x, n) == x * Pow2(n)
Shr(x, n) == x \div Pow2(n)

\* the low n bytes of the 32-bit word v, little endian (a word store of which
\* the cursor keeps n bytes)
RECURSIVE LEBytes(_, _)
LEBytes(v, n) == IF n = 0 THEN <<>> ELSE <<v % 256>> \o LEBytes(v \div 256, n - 1)

(***************************************************************************)
(* qoi.h: constants and header helpers                                     *)
(***************************************************************************)
QOI_HEADER_SIZE == 14
QOI_PIXELS_MAX == 400000000
qoi_padding == <<0, 0, 0, 0, 0, 0, 0, 1>>

\* pixels per iteration of the SIMD chunk encoders (48 bytes of RGB, 64 of RGBA)
SSE_BLOCK == 16
\* CHUNK is 131072 = 8192 SIMD blocks in qoi.h; the model keeps the structure
\* (a whole number of SIMD blocks) and scales the number of blocks
ChunkBlocks == 1
CHUNK == SSE_BLOCK * ChunkBlocks

\* the magic as its four big-endian bytes
R_QOI_MAGIC == <<114, 111, 105, 102>>
Q_QOI_MAGIC == <<113, 111, 105, 102>>
QOI_MAGIC(v) == IF v = "R" THEN R_QOI_MAGIC ELSE Q_QOI_MAGIC

\* qoi_write_32 with the least significant byte first
qoi_write_32_little_endian(v) ==
  << v % 256, (v \div 256) % 256, (v \div 65536) % 256, (v \div 16777216) % 256 >>

\* qoi_write_32: the four bytes of v, most significant first
qoi_write_32(v) ==
  << (v \div 16777216) % 256, (v \div 65536) % 256, (v \div 256) % 256, v % 256 >>

\* qoi_read_32 at C index p (the model's dimensions stay below 2^31, the
\* largest integer of the checker)
qoi_read_32(bytes, p) ==
  ((bytes[p + 1] * 256 + bytes[p + 2]) * 256 + bytes[p + 3]) * 256 + bytes[p + 4]

Px(r, g, b, a) == [r |-> r, g |-> g, b |-> b, a |-> a]

\* append the byte sequence bs at the write cursor of encoder state s
Emit(s, bs) == [s EXCEPT !.bytes = @ \o bs, !.b = @ + Len(bs)]

(***************************************************************************)
(* roi.c: the R variant, scalar encoders                                   *)
(***************************************************************************)
R_QOI_OP_LUMA232 == 0
R_QOI_OP_LUMA464 == 1
R_QOI_OP_LUMA777 == 3
R_QOI_OP_RUN == 7
R_QOI_OP_RGB == 247
R_QOI_OP_RGBA == 255
R_QOI_OP_RUN_FULL == 239
R_QOI_RUN_FULL_VAL == 30
R_QOI_PIXEL_WORST_CASE(channels) == IF channels = 4 THEN 6 ELSE 4

RECURSIVE R_DUMP_RUN_FULL(_)
\* for(;run>=QOI_RUN_FULL_VAL;run-=QOI_RUN_FULL_VAL) bytes[b++] = QOI_OP_RUN_FULL;
R_DUMP_RUN_FULL(s) ==
  IF s.run >= R_QOI_RUN_FULL_VAL
  THEN R_DUMP_RUN_FULL([Emit(s, <<R_QOI_OP_RUN_FULL>>) EXCEPT !.run = @ - R_QOI_RUN_FULL_VAL])
  ELSE s

\* DUMP_RUN with the run length stored without the bias of one
R_DUMP_RUN_unbiased(s) ==
  LET t == R_DUMP_RUN_FULL(s) IN
  IF t.run # 0
  THEN [Emit(t, <<UChar(BitOr(R_QOI_OP_RUN, Shl(t.run, 3)))>>) EXCEPT !.run = 0]
  ELSE t

R_DUMP_RUN(s) ==
  LET t == R_DUMP_RUN_FULL(s) IN
  IF t.run # 0
  THEN [Emit(t, <<UChar(BitOr(R_QOI_OP_RUN, Shl(t.run - 1, 3)))>>) EXCEPT !.run = 0]
  ELSE t

\* ENC_READ_RGB with the alpha of the previous pixel kept, as the Q variant
\* reads a pixel
R_ENC_READ_RGB_keeping_alpha(mem, px_pos) ==
  Px(mem[px_pos + 1], mem[px_pos + 2], mem[px_pos + 3], 255)

\* ENC_READ_RGB: four bytes are loaded and the top one is masked off
R_ENC_READ_RGB(mem, px_pos) ==
  Px(mem[px_pos + 1], mem[px_pos + 2], mem[px_pos + 3], 0)

ENC_READ_RGBA(mem, px_pos) ==
  Px(mem[px_pos + 1], mem[px_pos + 2], mem[px_pos + 3], mem[px_pos + 4])

\* (x<0)?(-x)-1:x, stored to an unsigned char
AbsBias(x) == UChar(IF x < 0 THEN (-x) - 1 ELSE x)

\* the class selected on the magnitudes |x| of the deltas, without the bias
\* of one for the negative ones
R_OpClass_symmetric(vg, vg_r, vg_b) ==
  LET ar == UChar(IF vg_r < 0 THEN -vg_r ELSE vg_r)
      ag == UChar(IF vg < 0 THEN -vg ELSE vg)
      ab == UChar(IF vg_b < 0 THEN -vg_b ELSE vg_b)
      arb == BitOr(ar, ab)
  IN IF arb < 2 /\ ag < 4 THEN 1
     ELSE IF arb < 8 /\ ag < 32 THEN 2
     ELSE IF BitOr(arb, ag) < 64 THEN 3
     ELSE 4

\* the class RGB_ENC_SCALAR selects for the deltas: 1, 2, 3 or 4 bytes
R_OpClass(vg, vg_r, vg_b) ==
  LET ar == AbsBias(vg_r)
      ag == AbsBias(vg)
      ab == AbsBias(vg_b)
      arb == BitOr(ar, ab)
  IN IF arb < 2 /\ ag < 4 THEN 1
     ELSE IF arb < 8 /\ ag < 32 THEN 2
     ELSE IF BitOr(arb, ag) < 64 THEN 3
     ELSE 4

\* the bytes RGB_ENC_SCALAR writes and keeps for the deltas
R_OpBytes(vg, vg_r, vg_b) ==
  LET c == R_OpClass(vg, vg_r, vg_b) IN
  IF c = 1 THEN
    <<UChar(BitOr(R_QOI_OP_LUMA232,
              BitOr(Shl(vg_b + 2, 6), BitOr(Shl(vg_r + 2, 4), Shl(vg + 4, 1)))))>>
  ELSE IF c = 2 THEN
    LEBytes(BitOr(R_QOI_OP_LUMA464,
              BitOr(Shl(vg_b + 8, 12), BitOr(Shl(vg_r + 8, 8), Shl(vg + 32, 2)))), 2)
  ELSE IF c = 3 THEN
    LEBytes(BitOr(R_QOI_OP_LUMA777,
              BitOr(Shl(vg_b + 64, 17), BitOr(Shl(vg_r + 64, 10), Shl(vg + 64, 3)))), 3)
  ELSE <<R_QOI_OP_RGB, UChar(vg), UChar(vg_r), UChar(vg_b)>>

R_RGB_ENC_SCALAR(s, px_prev) ==
  LET vr == SChar(s.px.r - px_prev.r)
      vg == SChar(s.px.g - px_prev.g)
      vb == SChar(s.px.b - px_prev.b)
      vg_r == SChar(vr - vg)
      vg_b == SChar(vb - vg)
  IN Emit(s, R_OpBytes(vg, vg_r, vg_b))

\* the RGBA opcode with the whole pixel behind it, as the Q variant writes it
R_AlphaOp_literal(s, px_prev) ==
  IF s.px.a # px_prev.a
  THEN Emit(s, <<R_QOI_OP_RGBA, s.px.r, s.px.g, s.px.b, s.px.a>>)
  ELSE s

\* the RGBA opcode written in front of every colour opcode
R_AlphaOp_always(s, px_prev) == Emit(s, <<R_QOI_OP_RGBA, s.px.a>>)

\* the RGBA opcode that precedes the colour opcode when alpha changed
R_AlphaOp(s, px_prev) ==
  IF s.px.a # px_prev.a THEN Emit(s, <<R_QOI_OP_RGBA, s.px.a>>) ELSE s

\* the loop body with the whole pending run written at the end of the chunk
R_scalar_pixel_flushing(s, mem, px_end, ch) ==
  LET px_prev == s.px
      s0 == [s EXCEPT !.px = IF ch = 4 THEN ENC_READ_RGBA(mem, s.px_pos)
                                       ELSE R_ENC_READ_RGB(mem, s.px_pos)]
  IN IF s0.px = px_prev
     THEN LET s1 == [s0 EXCEPT !.run = @ + 1, !.px_pos = @ + ch] IN
          IF s0.px_pos = px_end THEN R_DUMP_RUN(s1) ELSE s1
     ELSE LET s2 == R_DUMP_RUN(s0)
              s3 == IF ch = 4 THEN R_AlphaOp(s2, px_prev) ELSE s2
          IN [R_RGB_ENC_SCALAR(s3, px_prev) EXCEPT !.px_pos = @ + ch]

\* one pass through the loop body of qoi_encode_chunk3_scalar (ch = 3) or
\* qoi_encode_chunk4_scalar (ch = 4), either the for body or the while body:
\* the pixel at s.px_pos is read and joins the run, or is written behind the
\* flushed run.  px_prev is s.px at every entry: it is s.px at the call, the
\* pixels of a run equal it, and px_prev = s.px ends the for body.
R_scalar_pixel(s, mem, px_end, ch) ==
  LET px_prev == s.px
      s0 == [s EXCEPT !.px = IF ch = 4 THEN ENC_READ_RGBA(mem, s.px_pos)
                                       ELSE R_ENC_READ_RGB(mem, s.px_pos)]
  IN IF s0.px = px_prev
     THEN LET s1 == [s0 EXCEPT !.run = @ + 1, !.px_pos = @ + ch] IN
          IF s0.px_pos = px_end THEN R_DUMP_RUN_FULL(s1) ELSE s1
     ELSE LET s2 == R_DUMP_RUN(s0)
              s3 == IF ch = 4 THEN R_AlphaOp(s2, px_prev) ELSE s2
          IN [R_RGB_ENC_SCALAR(s3, px_prev) EXCEPT !.px_pos = @ + ch]

\* the passes that take s.px_pos to px_end: one per pixel
Passes(s, px_end, ch) == ((px_end - s.px_pos) \div ch) + 1

RECURSIVE R_scalar_passes(_, _, _, _, _)
\* the loop for(;s.px_pos<=px_end;...), cut after n passes and split in halves
R_scalar_passes(s, mem, px_end, ch, n) ==
  IF n = 0 \/ s.px_pos > px_end THEN s
  ELSE IF n = 1 THEN R_scalar_pixel(s, mem, px_end, ch)
  ELSE R_scalar_passes(R_scalar_passes(s, mem, px_end, ch, n \div 2),
                       mem, px_end, ch, n - (n \div 2))

R_qoi_encode_chunk3_scalar(s, mem) ==
  LET px_end == (s.pixel_cnt - 1) * 3
  IN R_scalar_passes(s, mem, px_end, 3, Passes(s, px_end, 3))

R_qoi_encode_chunk4_scalar(s, mem) ==
  LET px_end == (s.pixel_cnt - 1) * 4
  IN R_scalar_passes(s, mem, px_end, 4, Passes(s, px_end, 4))

(***************************************************************************)
(* roi.c: the R variant, decoders                                          *)
(***************************************************************************)
R_QOI_MASK_1 == 1
R_QOI_MASK_2 == 3
R_QOI_MASK_3 == 7

\* s.px.rgba.{r,g,b} += the three amounts (unsigned char arithmetic)
AddRGB(px, dr, dg, db) ==
  [px EXCEPT !.r = UChar(@ + dr), !.g = UChar(@ + dg), !.b = UChar(@ + db)]

\* the byte at C index i of the decoder's input buffer
ByteAt(s, i) == s.bytes[i + 1]

\* QOI_DECODE_COMMON followed by the RUN branch (3-channel input): one opcode
R_DecodeOp3(s) ==
  LET b1 == ByteAt(s, s.b) IN
  IF BitAnd(b1, R_QOI_MASK_1) = R_QOI_OP_LUMA232 THEN
    LET vg == BitAnd(Shr(b1, 1), 7) - 6 IN
    [s EXCEPT !.b = @ + 1,
              !.px = AddRGB(@, vg + BitAnd(Shr(b1, 4), 3), vg + 2, vg + BitAnd(Shr(b1, 6), 3))]
  ELSE IF BitAnd(b1, R_QOI_MASK_2) = R_QOI_OP_LUMA464 THEN
    LET b2 == ByteAt(s, s.b + 1)
        vg == BitAnd(Shr(b1, 2), 63) - 40
    IN [s EXCEPT !.b = @ + 2,
                 !.px = AddRGB(@, vg + BitAnd(b2, 15), vg + 8, vg + BitAnd(Shr(b2, 4), 15))]
  ELSE IF BitAnd(b1, R_QOI_MASK_3) = R_QOI_OP_LUMA777 THEN
    LET b2 == ByteAt(s, s.b + 1)
        b3 == ByteAt(s, s.b + 2)
        vg == BitOr(Shl(BitAnd(b2, 3), 5), BitAnd(Shr(b1, 3), 31)) - 128
    IN [s EXCEPT !.b = @ + 3,
                 !.px = AddRGB(@, vg + BitOr(Shl(BitAnd(b3, 1), 6), BitAnd(Shr(b2, 2), 63)),
                                  vg + 64,
                                  vg + BitAnd(Shr(b3, 1), 127))]
  ELSE IF b1 = R_QOI_OP_RGB THEN
    LET vg == SChar(ByteAt(s, s.b + 1))
        b3 == SChar(ByteAt(s, s.b + 2))
        b4 == SChar(ByteAt(s, s.b + 3))
    IN [s EXCEPT !.b = @ + 4, !.px = AddRGB(@, vg + b3, vg, vg + b4)]
  ELSE [s EXCEPT !.b = @ + 1, !.run = BitAnd(Shr(b1, 3), 31)]

\* an RGBA branch that ends the opcode behind the alpha byte
R_DecodeOp4_split(s) ==
  LET b1 == ByteAt(s, s.b) IN
  IF b1 = R_QOI_OP_RGBA
  THEN [s EXCEPT !.b = @ + 2, !.px = [@ EXCEPT !.a = ByteAt(s, s.b + 1)]]
  ELSE R_DecodeOp3(s)

RECURSIVE R_DecodeOp4(_)
\* the same with the RGBA branch of the 4-channel decoders: the alpha byte is
\* taken and control goes back to OP_RGBA_GOTO
R_DecodeOp4(s) ==
  LET b1 == ByteAt(s, s.b) IN
  IF b1 = R_QOI_OP_RGBA
  THEN R_DecodeOp4([s EXCEPT !.b = @ + 2, !.px = [@ EXCEPT !.a = ByteAt(s, s.b + 1)]])
  ELSE R_DecodeOp3(s)

\* a pixel store that leaves the alpha byte of a 4-channel output zero
StorePixel_zero_alpha(s, out) ==
  [s EXCEPT !.pixels = @ \o (IF out = 4 THEN <<s.px.r, s.px.g, s.px.b, 0>>
                                        ELSE <<s.px.r, s.px.g, s.px.b>>),
            !.px_pos = @ + out,
            !.pixel_curr = @ + 1]

\* the pixel store of a decoder with out output channels
StorePixel(s, out) ==
  [s EXCEPT !.pixels = @ \o (IF out = 4 THEN <<s.px.r, s.px.g, s.px.b, s.px.a>>
                                        ELSE <<s.px.r, s.px.g, s.px.b>>),
            !.px_pos = @ + out,
            !.pixel_curr = @ + 1]

\* the loop condition of the decoders; margin is 6 in roi.c and 5 in qoi.c
DecGuard(s, out, margin) ==
  (s.b + margin < s.b_present) /\ (s.px_pos + out <= s.p_limit) /\ (s.pixel_cnt # s.pixel_curr)

\* one pass of the while loop of dec_in<in>out<out>
R_dec_pixel(s, in, out) ==
  LET s1 == IF s.run # 0 THEN [s EXCEPT !.run = @ - 1]
            ELSE IF in = 4 THEN R_DecodeOp4(s) ELSE R_DecodeOp3(s)
  IN StorePixel(s1, out)

\* a bound of the passes the while loop of a decoder makes from s: a pass
\* counts one pixel, so there are at most pixel_cnt - pixel_curr; and a pass
\* takes a pixel of the pending run or reads an opcode of at least one byte
\* that stands for fewer than 64 pixels
DecPasses(s) ==
  IF s.pixel_cnt - s.pixel_curr <= s.run + 64 * (s.b_present - s.b)
  THEN s.pixel_cnt - s.pixel_curr
  ELSE s.run + 64 * (s.b_present - s.b)

RECURSIVE R_dec_passes(_, _, _, _)
\* the while loop, cut after n passes
R_dec_passes(s, in, out, n) ==
  IF n = 0 \/ ~DecGuard(s, out, 6) THEN s
  ELSE IF n = 1 THEN R_dec_pixel(s, in, out)
  ELSE R_dec_passes(R_dec_passes(s, in, out, n \div 2), in, out, n - (n \div 2))

R_dec(s, in, out) == R_dec_passes(s, in, out, DecPasses(s))

R_dec_in3out3(s) == R_dec(s, 3, 3)
R_dec_in3out4(s) == R_dec(s, 3, 4)
R_dec_in4out3(s) == R_dec(s, 4, 3)
R_dec_in4out4(s) == R_dec(s, 4, 4)

\* the index with the roles of the two channel counts exchanged
DEC_ARR_INDEX_swapped(desc_channels, channels) ==
  BitOr(Shl(channels - 3, 1), desc_channels - 3)

DEC_ARR_INDEX(desc_channels, channels) == BitOr(Shl(desc_channels - 3, 1), channels - 3)

\* dec_arr[DEC_ARR_INDEX](s)
R_dec_arr(i, s) ==
  CASE i = 0 -> R_dec_in3out3(s)
    [] i = 1 -> R_dec_in3out4(s)
    [] i = 2 -> R_dec_in4out3(s)
    [] i = 3 -> R_dec_in4out4(s)

(***************************************************************************)
(* qoi.c: the Q variant                                                    *)
(***************************************************************************)
Q_QOI_OP_INDEX == 0
Q_QOI_OP_DIFF == 64
Q_QOI_OP_LUMA == 128
Q_QOI_OP_RUN == 192
Q_QOI_OP_RGB == 254
Q_QOI_OP_RGBA == 255
Q_QOI_OP_RUN_FULL == 253
Q_QOI_RUN_FULL_VAL == 62
Q_QOI_MASK_2 == 192
Q_QOI_PIXEL_WORST_CASE(channels) == IF channels = 4 THEN 5 ELSE 4

QOI_COLOR_HASH(C) == C.r * 3 + C.g * 5 + C.b * 7 + C.a * 11

\* the index[64] member of a state made by enc_state s={0} or dec_state s={0}
ZeroIndex == [i \in 0..63 |-> Px(0, 0, 0, 0)]

RECURSIVE Q_DUMP_RUN_FULL(_)
Q_DUMP_RUN_FULL(s) ==
  IF s.run >= Q_QOI_RUN_FULL_VAL
  THEN Q_DUMP_RUN_FULL([Emit(s, <<Q_QOI_OP_RUN_FULL>>) EXCEPT !.run = @ - Q_QOI_RUN_FULL_VAL])
  ELSE s

\* DUMP_RUN with the run length stored without the bias of one
Q_DUMP_RUN_unbiased(s) ==
  LET t == Q_DUMP_RUN_FULL(s) IN
  IF t.run # 0
  THEN [Emit(t, <<UChar(BitOr(Q_QOI_OP_RUN, t.run))>>) EXCEPT !.run = 0]
  ELSE t

Q_DUMP_RUN(s) ==
  LET t == Q_DUMP_RUN_FULL(s) IN
  IF t.run # 0
  THEN [Emit(t, <<UChar(BitOr(Q_QOI_OP_RUN, t.run - 1))>>) EXCEPT !.run = 0]
  ELSE t

\* ENC_READ_RGB of qoi.c: r, g and b are assigned, a is left as it was
Q_ENC_READ_RGB(px, mem, px_pos) ==
  [px EXCEPT !.r = mem[px_pos + 1], !.g = mem[px_pos + 2], !.b = mem[px_pos + 3]]

Q_RGB_ENC_SCALAR(s, px_prev) ==
  LET vr == SChar(s.px.r - px_prev.r)
      vg == SChar(s.px.g - px_prev.g)
      vb == SChar(s.px.b - px_prev.b)
      vg_r == SChar(vr - vg)
      vg_b == SChar(vb - vg)
      ag == AbsBias(vg)
      d == BitOr(AbsBias(vr), AbsBias(vb))
      l == BitOr(AbsBias(vg_b), AbsBias(vg_r))
  IN IF d < 2 /\ ag < 2 THEN
       Emit(s, <<UChar(BitOr(Q_QOI_OP_DIFF,
                   BitOr(Shl(vr + 2, 4), BitOr(Shl(vg + 2, 2), vb + 2))))>>)
     ELSE IF l < 8 /\ ag < 32 THEN
       Emit(s, <<UChar(BitOr(Q_QOI_OP_LUMA, vg + 32)),
                 UChar(BitOr(Shl(vg_r + 8, 4), vg_b + 8))>>)
     ELSE Emit(s, <<Q_QOI_OP_RGB, s.px.r, s.px.g, s.px.b>>)

\* the body of the for loop after DUMP_RUN; ch is 3 or 4
Q_EncodePixel(s, px_prev, ch) ==
  LET index_pos == QOI_COLOR_HASH(s.px) % 64 IN
  IF s.index[index_pos] = s.px
  THEN Emit(s, <<BitOr(Q_QOI_OP_INDEX, index_pos)>>)
  ELSE LET s1 == [s EXCEPT !.index[index_pos] = s.px] IN
       IF ch = 4 /\ s1.px.a # px_prev.a
       THEN Emit(s1, <<Q_QOI_OP_RGBA, s1.px.r, s1.px.g, s1.px.b, s1.px.a>>)
       ELSE Q_RGB_ENC_SCALAR(s1, px_prev)

Q_Read(s, mem, pos, ch) ==
  IF ch = 4 THEN ENC_READ_RGBA(mem, pos) ELSE Q_ENC_READ_RGB(s.px, mem, pos)

\* the loop body with the pixel of a run stored in the index as well
Q_scalar_pixel_storing(s, mem, px_end, ch) ==
  LET px_prev == s.px
      s0 == [s EXCEPT !.px = Q_Read(s, mem, s.px_pos, ch)]
  IN IF s0.px = px_prev
     THEN LET s1 == [s0 EXCEPT !.run = @ + 1, !.px_pos = @ + ch,
                               !.index[QOI_COLOR_HASH(s0.px) % 64] = s0.px] IN
          IF s0.px_pos = px_end THEN Q_DUMP_RUN_FULL(s1) ELSE s1
     ELSE [Q_EncodePixel(Q_DUMP_RUN(s0), px_prev, ch) EXCEPT !.px_pos = @ + ch]

\* one pass through the loop body of the Q scalar encoders, as R_scalar_pixel
Q_scalar_pixel(s, mem, px_end, ch) ==
  LET px_prev == s.px
      s0 == [s EXCEPT !.px = Q_Read(s, mem, s.px_pos, ch)]
  IN IF s0.px = px_prev
     THEN LET s1 == [s0 EXCEPT !.run = @ + 1, !.px_pos = @ + ch] IN
          IF s0.px_pos = px_end THEN Q_DUMP_RUN_FULL(s1) ELSE s1
     ELSE [Q_EncodePixel(Q_DUMP_RUN(s0), px_prev, ch) EXCEPT !.px_pos = @ + ch]

RECURSIVE Q_scalar_passes(_, _, _, _, _)
Q_scalar_passes(s, mem, px_end, ch, n) ==
  IF n = 0 \/ s.px_pos > px_end THEN s
  ELSE IF n = 1 THEN Q_scalar_pixel(s, mem, px_end, ch)
  ELSE Q_scalar_passes(Q_scalar_passes(s, mem, px_end, ch, n \div 2),
                       mem, px_end, ch, n - (n \div 2))

Q_qoi_encode_chunk3_scalar(s, mem) ==
  LET px_end == (s.pixel_cnt - 1) * 3
  IN Q_scalar_passes(s, mem, px_end, 3, Passes(s, px_end, 3))

Q_qoi_encode_chunk4_scalar(s, mem) ==
  LET px_end == (s.pixel_cnt - 1) * 4
  IN Q_scalar_passes(s, mem, px_end, 4, Passes(s, px_end, 4))

\* QOI_DECODE_COMMON and the added branches without the index store
Q_DecodeOp_unstored(s, in) ==
  LET b1 == ByteAt(s, s.b)
      m == BitAnd(b1, Q_QOI_MASK_2)
  IN IF m = Q_QOI_OP_INDEX THEN [s EXCEPT !.b = @ + 1, !.px = s.index[b1]]
     ELSE IF m = Q_QOI_OP_DIFF THEN
       [s EXCEPT !.b = @ + 1,
                 !.px = AddRGB(@, BitAnd(Shr(b1, 4), 3) - 2,
                                  BitAnd(Shr(b1, 2), 3) - 2,
                                  BitAnd(b1, 3) - 2)]
     ELSE IF m = Q_QOI_OP_LUMA THEN
       LET b2 == ByteAt(s, s.b + 1)
           vg == BitAnd(b1, 63) - 32
       IN [s EXCEPT !.b = @ + 2,
                    !.px = AddRGB(@, vg - 8 + BitAnd(Shr(b2, 4), 15),
                                     vg,
                                     vg - 8 + BitAnd(b2, 15))]
     ELSE IF b1 = Q_QOI_OP_RGB THEN
       [s EXCEPT !.b = @ + 4,
                 !.px = [@ EXCEPT !.r = ByteAt(s, s.b + 1),
                                  !.g = ByteAt(s, s.b + 2),
                                  !.b = ByteAt(s, s.b + 3)]]
     ELSE IF in = 4 /\ b1 = Q_QOI_OP_RGBA THEN
       [s EXCEPT !.b = @ + 5,
                 !.px = Px(ByteAt(s, s.b + 1), ByteAt(s, s.b + 2),
                           ByteAt(s, s.b + 3), ByteAt(s, s.b + 4))]
     ELSE [s EXCEPT !.b = @ + 1, !.run = BitAnd(b1, 63)]

\* QOI_DECODE_COMMON with the branches a decoder of in input channels adds,
\* and the index store that follows every opcode
Q_DecodeOp(s, in) ==
  LET b1 == ByteAt(s, s.b)
      m == BitAnd(b1, Q_QOI_MASK_2)
      s1 ==
        IF m = Q_QOI_OP_INDEX THEN [s EXCEPT !.b = @ + 1, !.px = s.index[b1]]
        ELSE IF m = Q_QOI_OP_DIFF THEN
          [s EXCEPT !.b = @ + 1,
                    !.px = AddRGB(@, BitAnd(Shr(b1, 4), 3) - 2,
                                     BitAnd(Shr(b1, 2), 3) - 2,
                                     BitAnd(b1, 3) - 2)]
        ELSE IF m = Q_QOI_OP_LUMA THEN
          LET b2 == ByteAt(s, s.b + 1)
              vg == BitAnd(b1, 63) - 32
          IN [s EXCEPT !.b = @ + 2,
                       !.px = AddRGB(@, vg - 8 + BitAnd(Shr(b2, 4), 15),
                                        vg,
                                        vg - 8 + BitAnd(b2, 15))]
        ELSE IF b1 = Q_QOI_OP_RGB THEN
          [s EXCEPT !.b = @ + 4,
                    !.px = [@ EXCEPT !.r = ByteAt(s, s.b + 1),
                                     !.g = ByteAt(s, s.b + 2),
                                     !.b = ByteAt(s, s.b + 3)]]
        ELSE IF in = 4 /\ b1 = Q_QOI_OP_RGBA THEN
          [s EXCEPT !.b = @ + 5,
                    !.px = Px(ByteAt(s, s.b + 1), ByteAt(s, s.b + 2),
                              ByteAt(s, s.b + 3), ByteAt(s, s.b + 4))]
        ELSE [s EXCEPT !.b = @ + 1, !.run = BitAnd(b1, 63)]
  IN [s1 EXCEPT !.index[QOI_COLOR_HASH(s1.px) % 64] = s1.px]

Q_dec_pixel(s, in, out) ==
  StorePixel(IF s.run # 0 THEN [s EXCEPT !.run = @ - 1] ELSE Q_DecodeOp(s, in), out)

RECURSIVE Q_dec_passes(_, _, _, _)
Q_dec_passes(s, in, out, n) ==
  IF n = 0 \/ ~DecGuard(s, out, 5) THEN s
  ELSE IF n = 1 THEN Q_dec_pixel(s, in, out)
  ELSE Q_dec_passes(Q_dec_passes(s, in, out, n \div 2), in, out, n - (n \div 2))

Q_dec(s, in, out) == Q_dec_passes(s, in, out, DecPasses(s))

Q_dec_in3out3(s) == Q_dec(s, 3, 3)
Q_dec_in3out4(s) == Q_dec(s, 3, 4)
Q_dec_in4out3(s) == Q_dec(s, 4, 3)
Q_dec_in4out4(s) == Q_dec(s, 4, 4)

Q_dec_arr(i, s) ==
  CASE i = 0 -> Q_dec_in3out3(s)
    [] i = 1 -> Q_dec_in3out4(s)
    [] i = 2 -> Q_dec_in4out3(s)
    [] i = 3 -> Q_dec_in4out4(s)

(***************************************************************************)
(* SSE intrinsics on 128-bit vectors: a vector is a function from the byte *)
(* lanes 0..15 to bytes, lane 0 the lowest address                         *)
(***************************************************************************)
Lanes == 0..15
IsNeg(x) == x >= 128

\* the register an instruction computes from its operand registers regs: the
\* operands hold their values first, and the result holds the values of its
\* 16 lanes (the function is tabulated)
Vec(regs, f) == <<regs, f @@ <<>>>>[2]

_mm_setzero_si128 == Vec(<<>>, [i \in Lanes |-> 0])
_mm_set1_epi8(x) == Vec(<<>>, [i \in Lanes |-> UChar(x)])
_mm_setr_epi8(t) == Vec(<<>>, [i \in Lanes |-> UChar(t[i + 1])])
_mm_loadu_si128(mem, off) == Vec(<<>>, [i \in Lanes |-> mem[off + i + 1]])
_mm_slli_si128(a, n) == Vec(<<a>>, [i \in Lanes |-> IF i >= n THEN a[i - n] ELSE 0])
_mm_srli_si128(a, n) == Vec(<<a>>, [i \in Lanes |-> IF i + n <= 15 THEN a[i + n] ELSE 0])
_mm_or_si128(a, b) == Vec(<<a, b>>, [i \in Lanes |-> BitOr(a[i], b[i])])
_mm_and_si128(a, b) == Vec(<<a, b>>, [i \in Lanes |-> BitAnd(a[i], b[i])])
_mm_andnot_si128(a, b) == Vec(<<a, b>>, [i \in Lanes |-> BitAnd(255 - a[i], b[i])])
_mm_add_epi8(a, b) == Vec(<<a, b>>, [i \in Lanes |-> UChar(a[i] + b[i])])
_mm_sub_epi8(a, b) == Vec(<<a, b>>, [i \in Lanes |-> UChar(a[i] - b[i])])
_mm_subs_epu8(a, b) == Vec(<<a, b>>, [i \in Lanes |-> IF a[i] > b[i] THEN a[i] - b[i] ELSE 0])
_mm_abs_epi8(a) == Vec(<<a>>, [i \in Lanes |-> IF IsNeg(a[i]) THEN 256 - a[i] ELSE a[i]])
_mm_cmpgt_epi8(a, b) == Vec(<<a, b>>, [i \in Lanes |-> IF SChar(a[i]) > SChar(b[i]) THEN 255 ELSE 0])
_mm_cmpeq_epi8(a, b) == Vec(<<a, b>>, [i \in Lanes |-> IF a[i] = b[i] THEN 255 ELSE 0])
_mm_blendv_epi8(a, b, mask) == Vec(<<a, b, mask>>, [i \in Lanes |-> IF IsNeg(mask[i]) THEN b[i] ELSE a[i]])
_mm_shuffle_epi8(a, b) == Vec(<<a, b>>, [i \in Lanes |-> IF IsNeg(b[i]) THEN 0 ELSE a[b[i] % 16]])
_mm_unpacklo_epi8(a, b) == Vec(<<a, b>>, [i \in Lanes |-> IF i % 2 = 0 THEN a[i \div 2] ELSE b[i \div 2]])
_mm_unpackhi_epi8(a, b) == Vec(<<a, b>>, [i \in Lanes |-> IF i % 2 = 0 THEN a[8 + (i \div 2)] ELSE b[8 + (i \div 2)]])
_mm_unpacklo_epi16(a, b) ==
  Vec(<<a, b>>, [i \in Lanes |-> IF (i \div 2) % 2 = 0 THEN a[2 * (i \div 4) + (i % 2)]
                                        ELSE b[2 * (i \div 4) + (i % 2)]])
_mm_unpackhi_epi16(a, b) ==
  Vec(<<a, b>>, [i \in Lanes |-> IF (i \div 2) % 2 = 0 THEN a[8 + 2 * (i \div 4) + (i % 2)]
                                        ELSE b[8 + 2 * (i \div 4) + (i % 2)]])
_mm_unpacklo_epi32(a, b) ==
  Vec(<<a, b>>, [i \in Lanes |-> IF (i \div 4) % 2 = 0 THEN a[4 * (i \div 8) + (i % 4)]
                                        ELSE b[4 * (i \div 8) + (i % 4)]])
_mm_unpackhi_epi32(a, b) ==
  Vec(<<a, b>>, [i \in Lanes |-> IF (i \div 4) % 2 = 0 THEN a[8 + 4 * (i \div 8) + (i % 4)]
                                        ELSE b[8 + 4 * (i \div 8) + (i % 4)]])
\* the 16-bit and 32-bit elements are little endian
_mm_slli_epi16(a, n) ==
  Vec(<<a>>, [i \in Lanes |->
     LET e == 2 * (i \div 2)
         w == (Shl(a[e] + 256 * a[e + 1], n)) % 65536
     IN IF i % 2 = 0 THEN w % 256 ELSE w \div 256])
_mm_slli_epi32(a, n) ==
  Vec(<<a>>, [i \in Lanes |->
     LET e == 4 * (i \div 4)
         \* the bits of the element that survive the shift, moved up
         w == Shl((a[e] + 256 * a[e + 1] + 65536 * (a[e + 2] + 256 * a[e + 3]))
                    % Pow2(32 - n), n)
     IN (w \div Pow2(8 * (i % 4))) % 256])
RECURSIVE MoveMask(_, _)
MoveMask(a, i) == IF i > 15 THEN 0 ELSE (IF IsNeg(a[i]) THEN Pow2(i) ELSE 0) + MoveMask(a, i + 1)
_mm_movemask_epi8(a) == MoveMask(a, 0)
_mm_test_all_zeros(a, mask) == \A i \in Lanes : BitAnd(a[i], mask[i]) = 0
_mm_testz_si128(a, b) == \A i \in Lanes : BitAnd(a[i], b[i]) = 0
\* _mm_storeu_si128 to a byte array, read back as the bytes off..off+n-1
StoredBytes(a, off, n) == [k \in 1..n |-> a[off + k - 1]]

(***************************************************************************)
(* roi.c: the tables of the SIMD quick path                                *)
(***************************************************************************)
\* writer_lut[4096]: 256 shuffle masks of 16 bytes
writer_lut == <<
  0, 4, 8, 12, 0, 0, 0, 0, 0, 0, 0, 0, 0, 0, 0, 0, 0, 1, 4, 8, 12, 0, 0, 0, 0, 0, 0, 0, 0, 0, 0, 0, 0, 1, 2, 4, 8, 12, 0, 0, 0, 0, 0, 0, 0, 0, 0, 0, 0, 1, 2, 3, 4, 8, 12, 0, 0, 0, 0, 0, 0, 0, 0, 0,
  0, 4, 5, 8, 12, 0, 0, 0, 0, 0, 0, 0, 0, 0, 0, 0, 0, 1, 4, 5, 8, 12, 0, 0, 0, 0, 0, 0, 0, 0, 0, 0, 0, 1, 2, 4, 5, 8, 12, 0, 0, 0, 0, 0, 0, 0, 0, 0, 0, 1, 2, 3, 4, 5, 8, 12, 0, 0, 0, 0, 0, 0, 0, 0,
  0, 4, 5, 6, 8, 12, 0, 0, 0, 0, 0, 0, 0, 0, 0, 0, 0, 1, 4, 5, 6, 8, 12, 0, 0, 0, 0, 0, 0, 0, 0, 0, 0, 1, 2, 4, 5, 6, 8, 12, 0, 0, 0, 0, 0, 0, 0, 0, 0, 1, 2, 3, 4, 5, 6, 8, 12, 0, 0, 0, 0, 0, 0, 0,
  0, 4, 5, 6, 7, 8, 12, 0, 0, 0, 0, 0, 0, 0, 0, 0, 0, 1, 4, 5, 6, 7, 8, 12, 0, 0, 0, 0, 0, 0, 0, 0, 0, 1, 2, 4, 5, 6, 7, 8, 12, 0, 0, 0, 0, 0, 0, 0, 0, 1, 2, 3, 4, 5, 6, 7, 8, 12, 0, 0, 0, 0, 0, 0,
  0, 4, 8, 9, 12, 0, 0, 0, 0, 0, 0, 0, 0, 0, 0, 0, 0, 1, 4, 8, 9, 12, 0, 0, 0, 0, 0, 0, 0, 0, 0, 0, 0, 1, 2, 4, 8, 9, 12, 0, 0, 0, 0, 0, 0, 0, 0, 0, 0, 1, 2, 3, 4, 8, 9, 12, 0, 0, 0, 0, 0, 0, 0, 0,
  0, 4, 5, 8, 9, 12, 0, 0, 0, 0, 0, 0, 0, 0, 0, 0, 0, 1, 4, 5, 8, 9, 12, 0, 0, 0, 0, 0, 0, 0, 0, 0, 0, 1, 2, 4, 5, 8, 9, 12, 0, 0, 0, 0, 0, 0, 0, 0, 0, 1, 2, 3, 4, 5, 8, 9, 12, 0, 0, 0, 0, 0, 0, 0,
  0, 4, 5, 6, 8, 9, 12, 0, 0, 0, 0, 0, 0, 0, 0, 0, 0, 1, 4, 5, 6, 8, 9, 12, 0, 0, 0, 0, 0, 0, 0, 0, 0, 1, 2, 4, 5, 6, 8, 9, 12, 0, 0, 0, 0, 0, 0, 0, 0, 1, 2, 3, 4, 5, 6, 8, 9, 12, 0, 0, 0, 0, 0, 0,
  0, 4, 5, 6, 7, 8, 9, 12, 0, 0, 0, 0, 0, 0, 0, 0, 0, 1, 4, 5, 6, 7, 8, 9, 12, 0, 0, 0, 0, 0, 0, 0, 0, 1, 2, 4, 5, 6, 7, 8, 9, 12, 0, 0, 0, 0, 0, 0, 0, 1, 2, 3, 4, 5, 6, 7, 8, 9, 12, 0, 0, 0, 0, 0,
  0, 4, 8, 9, 10, 12, 0, 0, 0, 0, 0, 0, 0, 0, 0, 0, 0, 1, 4, 8, 9, 10, 12, 0, 0, 0, 0, 0, 0, 0, 0, 0, 0, 1, 2, 4, 8, 9, 10, 12, 0, 0, 0, 0, 0, 0, 0, 0, 0, 1, 2, 3, 4, 8, 9, 10, 12, 0, 0, 0, 0, 0, 0, 0,
  0, 4, 5, 8, 9, 10, 12, 0, 0, 0, 0, 0, 0, 0, 0, 0, 0, 1, 4, 5, 8, 9, 10, 12, 0, 0, 0, 0, 0, 0, 0, 0, 0, 1, 2, 4, 5, 8, 9, 10, 12, 0, 0, 0, 0, 0, 0, 0, 0, 1, 2, 3, 4, 5, 8, 9, 10, 12, 0, 0, 0, 0, 0, 0,
  0, 4, 5, 6, 8, 9, 10, 12, 0, 0, 0, 0, 0, 0, 0, 0, 0, 1, 4, 5, 6, 8, 9, 10, 12, 0, 0, 0, 0, 0, 0, 0, 0, 1, 2, 4, 5, 6, 8, 9, 10, 12, 0, 0, 0, 0, 0, 0, 0, 1, 2, 3, 4, 5, 6, 8, 9, 10, 12, 0, 0, 0, 0, 0,
  0, 4, 5, 6, 7, 8, 9, 10, 12, 0, 0, 0, 0, 0, 0, 0, 0, 1, 4, 5, 6, 7, 8, 9, 10, 12, 0, 0, 0, 0, 0, 0, 0, 1, 2, 4, 5, 6, 7, 8, 9, 10, 12, 0, 0, 0, 0, 0, 0, 1, 2, 3, 4, 5, 6, 7, 8, 9, 10, 12, 0, 0, 0, 0,
  0, 4, 8, 9, 10, 11, 12, 0, 0, 0, 0, 0, 0, 0, 0, 0, 0, 1, 4, 8, 9, 10, 11, 12, 0, 0, 0, 0, 0, 0, 0, 0, 0, 1, 2, 4, 8, 9, 10, 11, 12, 0, 0, 0, 0, 0, 0, 0, 0, 1, 2, 3, 4, 8, 9, 10, 11, 12, 0, 0, 0, 0, 0, 0,
  0, 4, 5, 8, 9, 10, 11, 12, 0, 0, 0, 0, 0, 0, 0, 0, 0, 1, 4, 5, 8, 9, 10, 11, 12, 0, 0, 0, 0, 0, 0, 0, 0, 1, 2, 4, 5, 8, 9, 10, 11, 12, 0, 0, 0, 0, 0, 0, 0, 1, 2, 3, 4, 5, 8, 9, 10, 11, 12, 0, 0, 0, 0, 0,
  0, 4, 5, 6, 8, 9, 10, 11, 12, 0, 0, 0, 0, 0, 0, 0, 0, 1, 4, 5, 6, 8, 9, 10, 11, 12, 0, 0, 0, 0, 0, 0, 0, 1, 2, 4, 5, 6, 8, 9, 10, 11, 12, 0, 0, 0, 0, 0, 0, 1, 2, 3, 4, 5, 6, 8, 9, 10, 11, 12, 0, 0, 0, 0,
  0, 4, 5, 6, 7, 8, 9, 10, 11, 12, 0, 0, 0, 0, 0, 0, 0, 1, 4, 5, 6, 7, 8, 9, 10, 11, 12, 0, 0, 0, 0, 0, 0, 1, 2, 4, 5, 6, 7, 8, 9, 10, 11, 12, 0, 0, 0, 0, 0, 1, 2, 3, 4, 5, 6, 7, 8, 9, 10, 11, 12, 0, 0, 0,
  0, 4, 8, 12, 13, 0, 0, 0, 0, 0, 0, 0, 0, 0, 0, 0, 0, 1, 4, 8, 12, 13, 0, 0, 0, 0, 0, 0, 0, 0, 0, 0, 0, 1, 2, 4, 8, 12, 13, 0, 0, 0, 0, 0, 0, 0, 0, 0, 0, 1, 2, 3, 4, 8, 12, 13, 0, 0, 0, 0, 0, 0, 0, 0,
  0, 4, 5, 8, 12, 13, 0, 0, 0, 0, 0, 0, 0, 0, 0, 0, 0, 1, 4, 5, 8, 12, 13, 0, 0, 0, 0, 0, 0, 0, 0, 0, 0, 1, 2, 4, 5, 8, 12, 13, 0, 0, 0, 0, 0, 0, 0, 0, 0, 1, 2, 3, 4, 5, 8, 12, 13, 0, 0, 0, 0, 0, 0, 0,
  0, 4, 5, 6, 8, 12, 13, 0, 0, 0, 0, 0, 0, 0, 0, 0, 0, 1, 4, 5, 6, 8, 12, 13, 0, 0, 0, 0, 0, 0, 0, 0, 0, 1, 2, 4, 5, 6, 8, 12, 13, 0, 0, 0, 0, 0, 0, 0, 0, 1, 2, 3, 4, 5, 6, 8, 12, 13, 0, 0, 0, 0, 0, 0,
  0, 4, 5, 6, 7, 8, 12, 13, 0, 0, 0, 0, 0, 0, 0, 0, 0, 1, 4, 5, 6, 7, 8, 12, 13, 0, 0, 0, 0, 0, 0, 0, 0, 1, 2, 4, 5, 6, 7, 8, 12, 13, 0, 0, 0, 0, 0, 0, 0, 1, 2, 3, 4, 5, 6, 7, 8, 12, 13, 0, 0, 0, 0, 0,
  0, 4, 8, 9, 12, 13, 0, 0, 0, 0, 0, 0, 0, 0, 0, 0, 0, 1, 4, 8, 9, 12, 13, 0, 0, 0, 0, 0, 0, 0, 0, 0, 0, 1, 2, 4, 8, 9, 12, 13, 0, 0, 0, 0, 0, 0, 0, 0, 0, 1, 2, 3, 4, 8, 9, 12, 13, 0, 0, 0, 0, 0, 0, 0,
  0, 4, 5, 8, 9, 12, 13, 0, 0, 0, 0, 0, 0, 0, 0, 0, 0, 1, 4, 5, 8, 9, 12, 13, 0, 0, 0, 0, 0, 0, 0, 0, 0, 1, 2, 4, 5, 8, 9, 12, 13, 0, 0, 0, 0, 0, 0, 0, 0, 1, 2, 3, 4, 5, 8, 9, 12, 13, 0, 0, 0, 0, 0, 0,
  0, 4, 5, 6, 8, 9, 12, 13, 0, 0, 0, 0, 0, 0, 0, 0, 0, 1, 4, 5, 6, 8, 9, 12, 13, 0, 0, 0, 0, 0, 0, 0, 0, 1, 2, 4, 5, 6, 8, 9, 12, 13, 0, 0, 0, 0, 0, 0, 0, 1, 2, 3, 4, 5, 6, 8, 9, 12, 13, 0, 0, 0, 0, 0,
  0, 4, 5, 6, 7, 8, 9, 12, 13, 0, 0, 0, 0, 0, 0, 0, 0, 1, 4, 5, 6, 7, 8, 9, 12, 13, 0, 0, 0, 0, 0, 0, 0, 1, 2, 4, 5, 6, 7, 8, 9, 12, 13, 0, 0, 0, 0, 0, 0, 1, 2, 3, 4, 5, 6, 7, 8, 9, 12, 13, 0, 0, 0, 0,
  0, 4, 8, 9, 10, 12, 13, 0, 0, 0, 0, 0, 0, 0, 0, 0, 0, 1, 4, 8, 9, 10, 12, 13, 0, 0, 0, 0, 0, 0, 0, 0, 0, 1, 2, 4, 8, 9, 10, 12, 13, 0, 0, 0, 0, 0, 0, 0, 0, 1, 2, 3, 4, 8, 9, 10, 12, 13, 0, 0, 0, 0, 0, 0,
  0, 4, 5, 8, 9, 10, 12, 13, 0, 0, 0, 0, 0, 0, 0, 0, 0, 1, 4, 5, 8, 9, 10, 12, 13, 0, 0, 0, 0, 0, 0, 0, 0, 1, 2, 4, 5, 8, 9, 10, 12, 13, 0, 0, 0, 0, 0, 0, 0, 1, 2, 3, 4, 5, 8, 9, 10, 12, 13, 0, 0, 0, 0, 0,
  0, 4, 5, 6, 8, 9, 10, 12, 13, 0, 0, 0, 0, 0, 0, 0, 0, 1, 4, 5, 6, 8, 9, 10, 12, 13, 0, 0, 0, 0, 0, 0, 0, 1, 2, 4, 5, 6, 8, 9, 10, 12, 13, 0, 0, 0, 0, 0, 0, 1, 2, 3, 4, 5, 6, 8, 9, 10, 12, 13, 0, 0, 0, 0,
  0, 4, 5, 6, 7, 8, 9, 10, 12, 13, 0, 0, 0, 0, 0, 0, 0, 1, 4, 5, 6, 7, 8, 9, 10, 12, 13, 0, 0, 0, 0, 0, 0, 1, 2, 4, 5, 6, 7, 8, 9, 10, 12, 13, 0, 0, 0, 0, 0, 1, 2, 3, 4, 5, 6, 7, 8, 9, 10, 12, 13, 0, 0, 0,
  0, 4, 8, 9, 10, 11, 12, 13, 0, 0, 0, 0, 0, 0, 0, 0, 0, 1, 4, 8, 9, 10, 11, 12, 13, 0, 0, 0, 0, 0, 0, 0, 0, 1, 2, 4, 8, 9, 10, 11, 12, 13, 0, 0, 0, 0, 0, 0, 0, 1, 2, 3, 4, 8, 9, 10, 11, 12, 13, 0, 0, 0, 0, 0,
  0, 4, 5, 8, 9, 10, 11, 12, 13, 0, 0, 0, 0, 0, 0, 0, 0, 1, 4, 5, 8, 9, 10, 11, 12, 13, 0, 0, 0, 0, 0, 0, 0, 1, 2, 4, 5, 8, 9, 10, 11, 12, 13, 0, 0, 0, 0, 0, 0, 1, 2, 3, 4, 5, 8, 9, 10, 11, 12, 13, 0, 0, 0, 0,
  0, 4, 5, 6, 8, 9, 10, 11, 12, 13, 0, 0, 0, 0, 0, 0, 0, 1, 4, 5, 6, 8, 9, 10, 11, 12, 13, 0, 0, 0, 0, 0, 0, 1, 2, 4, 5, 6, 8, 9, 10, 11, 12, 13, 0, 0, 0, 0, 0, 1, 2, 3, 4, 5, 6, 8, 9, 10, 11, 12, 13, 0, 0, 0,
  0, 4, 5, 6, 7, 8, 9, 10, 11, 12, 13, 0, 0, 0, 0, 0, 0, 1, 4, 5, 6, 7, 8, 9, 10, 11, 12, 13, 0, 0, 0, 0, 0, 1, 2, 4, 5, 6, 7, 8, 9, 10, 11, 12, 13, 0, 0, 0, 0, 1, 2, 3, 4, 5, 6, 7, 8, 9, 10, 11, 12, 13, 0, 0,
  0, 4, 8, 12, 13, 14, 0, 0, 0, 0, 0, 0, 0, 0, 0, 0, 0, 1, 4, 8, 12, 13, 14, 0, 0, 0, 0, 0, 0, 0, 0, 0, 0, 1, 2, 4, 8, 12, 13, 14, 0, 0, 0, 0, 0, 0, 0, 0, 0, 1, 2, 3, 4, 8, 12, 13, 14, 0, 0, 0, 0, 0, 0, 0,
  0, 4, 5, 8, 12, 13, 14, 0, 0, 0, 0, 0, 0, 0, 0, 0, 0, 1, 4, 5, 8, 12, 13, 14, 0, 0, 0, 0, 0, 0, 0, 0, 0, 1, 2, 4, 5, 8, 12, 13, 14, 0, 0, 0, 0, 0, 0, 0, 0, 1, 2, 3, 4, 5, 8, 12, 13, 14, 0, 0, 0, 0, 0, 0,
  0, 4, 5, 6, 8, 12, 13, 14, 0, 0, 0, 0, 0, 0, 0, 0, 0, 1, 4, 5, 6, 8, 12, 13, 14, 0, 0, 0, 0, 0, 0, 0, 0, 1, 2, 4, 5, 6, 8, 12, 13, 14, 0, 0, 0, 0, 0, 0, 0, 1, 2, 3, 4, 5, 6, 8, 12, 13, 14, 0, 0, 0, 0, 0,
  0, 4, 5, 6, 7, 8, 12, 13, 14, 0, 0, 0, 0, 0, 0, 0, 0, 1, 4, 5, 6, 7, 8, 12, 13, 14, 0, 0, 0, 0, 0, 0, 0, 1, 2, 4, 5, 6, 7, 8, 12, 13, 14, 0, 0, 0, 0, 0, 0, 1, 2, 3, 4, 5, 6, 7, 8, 12, 13, 14, 0, 0, 0, 0,
  0, 4, 8, 9, 12, 13, 14, 0, 0, 0, 0, 0, 0, 0, 0, 0, 0, 1, 4, 8, 9, 12, 13, 14, 0, 0, 0, 0, 0, 0, 0, 0, 0, 1, 2, 4, 8, 9, 12, 13, 14, 0, 0, 0, 0, 0, 0, 0, 0, 1, 2, 3, 4, 8, 9, 12, 13, 14, 0, 0, 0, 0, 0, 0,
  0, 4, 5, 8, 9, 12, 13, 14, 0, 0, 0, 0, 0, 0, 0, 0, 0, 1, 4, 5, 8, 9, 12, 13, 14, 0, 0, 0, 0, 0, 0, 0, 0, 1, 2, 4, 5, 8, 9, 12, 13, 14, 0, 0, 0, 0, 0, 0, 0, 1, 2, 3, 4, 5, 8, 9, 12, 13, 14, 0, 0, 0, 0, 0,
  0, 4, 5, 6, 8, 9, 12, 13, 14, 0, 0, 0, 0, 0, 0, 0, 0, 1, 4, 5, 6, 8, 9, 12, 13, 14, 0, 0, 0, 0, 0, 0, 0, 1, 2, 4, 5, 6, 8, 9, 12, 13, 14, 0, 0, 0, 0, 0, 0, 1, 2, 3, 4, 5, 6, 8, 9, 12, 13, 14, 0, 0, 0, 0,
  0, 4, 5, 6, 7, 8, 9, 12, 13, 14, 0, 0, 0, 0, 0, 0, 0, 1, 4, 5, 6, 7, 8, 9, 12, 13, 14, 0, 0, 0, 0, 0, 0, 1, 2, 4, 5, 6, 7, 8, 9, 12, 13, 14, 0, 0, 0, 0, 0, 1, 2, 3, 4, 5, 6, 7, 8, 9, 12, 13, 14, 0, 0, 0,
  0, 4, 8, 9, 10, 12, 13, 14, 0, 0, 0, 0, 0, 0, 0, 0, 0, 1, 4, 8, 9, 10, 12, 13, 14, 0, 0, 0, 0, 0, 0, 0, 0, 1, 2, 4, 8, 9, 10, 12, 13, 14, 0, 0, 0, 0, 0, 0, 0, 1, 2, 3, 4, 8, 9, 10, 12, 13, 14, 0, 0, 0, 0, 0,
  0, 4, 5, 8, 9, 10, 12, 13, 14, 0, 0, 0, 0, 0, 0, 0, 0, 1, 4, 5, 8, 9, 10, 12, 13, 14, 0, 0, 0, 0, 0, 0, 0, 1, 2, 4, 5, 8, 9, 10, 12, 13, 14, 0, 0, 0, 0, 0, 0, 1, 2, 3, 4, 5, 8, 9, 10, 12, 13, 14, 0, 0, 0, 0,
  0, 4, 5, 6, 8, 9, 10, 12, 13, 14, 0, 0, 0, 0, 0, 0, 0, 1, 4, 5, 6, 8, 9, 10, 12, 13, 14, 0, 0, 0, 0, 0, 0, 1, 2, 4, 5, 6, 8, 9, 10, 12, 13, 14, 0, 0, 0, 0, 0, 1, 2, 3, 4, 5, 6, 8, 9, 10, 12, 13, 14, 0, 0, 0,
  0, 4, 5, 6, 7, 8, 9, 10, 12, 13, 14, 0, 0, 0, 0, 0, 0, 1, 4, 5, 6, 7, 8, 9, 10, 12, 13, 14, 0, 0, 0, 0, 0, 1, 2, 4, 5, 6, 7, 8, 9, 10, 12, 13, 14, 0, 0, 0, 0, 1, 2, 3, 4, 5, 6, 7, 8, 9, 10, 12, 13, 14, 0, 0,
  0, 4, 8, 9, 10, 11, 12, 13, 14, 0, 0, 0, 0, 0, 0, 0, 0, 1, 4, 8, 9, 10, 11, 12, 13, 14, 0, 0, 0, 0, 0, 0, 0, 1, 2, 4, 8, 9, 10, 11, 12, 13, 14, 0, 0, 0, 0, 0, 0, 1, 2, 3, 4, 8, 9, 10, 11, 12, 13, 14, 0, 0, 0, 0,
  0, 4, 5, 8, 9, 10, 11, 12, 13, 14, 0, 0, 0, 0, 0, 0, 0, 1, 4, 5, 8, 9, 10, 11, 12, 13, 14, 0, 0, 0, 0, 0, 0, 1, 2, 4, 5, 8, 9, 10, 11, 12, 13, 14, 0, 0, 0, 0, 0, 1, 2, 3, 4, 5, 8, 9, 10, 11, 12, 13, 14, 0, 0, 0,
  0, 4, 5, 6, 8, 9, 10, 11, 12, 13, 14, 0, 0, 0, 0, 0, 0, 1, 4, 5, 6, 8, 9, 10, 11, 12, 13, 14, 0, 0, 0, 0, 0, 1, 2, 4, 5, 6, 8, 9, 10, 11, 12, 13, 14, 0, 0, 0, 0, 1, 2, 3, 4, 5, 6, 8, 9, 10, 11, 12, 13, 14, 0, 0,
  0, 4, 5, 6, 7, 8, 9, 10, 11, 12, 13, 14, 0, 0, 0, 0, 0, 1, 4, 5, 6, 7, 8, 9, 10, 11, 12, 13, 14, 0, 0, 0, 0, 1, 2, 4, 5, 6, 7, 8, 9, 10, 11, 12, 13, 14, 0, 0, 0, 1, 2, 3, 4, 5, 6, 7, 8, 9, 10, 11, 12, 13, 14, 0,
  0, 4, 8, 12, 13, 14, 15, 0, 0, 0, 0, 0, 0, 0, 0, 0, 0, 1, 4, 8, 12, 13, 14, 15, 0, 0, 0, 0, 0, 0, 0, 0, 0, 1, 2, 4, 8, 12, 13, 14, 15, 0, 0, 0, 0, 0, 0, 0, 0, 1, 2, 3, 4, 8, 12, 13, 14, 15, 0, 0, 0, 0, 0, 0,
  0, 4, 5, 8, 12, 13, 14, 15, 0, 0, 0, 0, 0, 0, 0, 0, 0, 1, 4, 5, 8, 12, 13, 14, 15, 0, 0, 0, 0, 0, 0, 0, 0, 1, 2, 4, 5, 8, 12, 13, 14, 15, 0, 0, 0, 0, 0, 0, 0, 1, 2, 3, 4, 5, 8, 12, 13, 14, 15, 0, 0, 0, 0, 0,
  0, 4, 5, 6, 8, 12, 13, 14, 15, 0, 0, 0, 0, 0, 0, 0, 0, 1, 4, 5, 6, 8, 12, 13, 14, 15, 0, 0, 0, 0, 0, 0, 0, 1, 2, 4, 5, 6, 8, 12, 13, 14, 15, 0, 0, 0, 0, 0, 0, 1, 2, 3, 4, 5, 6, 8, 12, 13, 14, 15, 0, 0, 0, 0,
  0, 4, 5, 6, 7, 8, 12, 13, 14, 15, 0, 0, 0, 0, 0, 0, 0, 1, 4, 5, 6, 7, 8, 12, 13, 14, 15, 0, 0, 0, 0, 0, 0, 1, 2, 4, 5, 6, 7, 8, 12, 13, 14, 15, 0, 0, 0, 0, 0, 1, 2, 3, 4, 5, 6, 7, 8, 12, 13, 14, 15, 0, 0, 0,
  0, 4, 8, 9, 12, 13, 14, 15, 0, 0, 0, 0, 0, 0, 0, 0, 0, 1, 4, 8, 9, 12, 13, 14, 15, 0, 0, 0, 0, 0, 0, 0, 0, 1, 2, 4, 8, 9, 12, 13, 14, 15, 0, 0, 0, 0, 0, 0, 0, 1, 2, 3, 4, 8, 9, 12, 13, 14, 15, 0, 0, 0, 0, 0,
  0, 4, 5, 8, 9, 12, 13, 14, 15, 0, 0, 0, 0, 0, 0, 0, 0, 1, 4, 5, 8, 9, 12, 13, 14, 15, 0, 0, 0, 0, 0, 0, 0, 1, 2, 4, 5, 8, 9, 12, 13, 14, 15, 0, 0, 0, 0, 0, 0, 1, 2, 3, 4, 5, 8, 9, 12, 13, 14, 15, 0, 0, 0, 0,
  0, 4, 5, 6, 8, 9, 12, 13, 14, 15, 0, 0, 0, 0, 0, 0, 0, 1, 4, 5, 6, 8, 9, 12, 13, 14, 15, 0, 0, 0, 0, 0, 0, 1, 2, 4, 5, 6, 8, 9, 12, 13, 14, 15, 0, 0, 0, 0, 0, 1, 2, 3, 4, 5, 6, 8, 9, 12, 13, 14, 15, 0, 0, 0,
  0, 4, 5, 6, 7, 8, 9, 12, 13, 14, 15, 0, 0, 0, 0, 0, 0, 1, 4, 5, 6, 7, 8, 9, 12, 13, 14, 15, 0, 0, 0, 0, 0, 1, 2, 4, 5, 6, 7, 8, 9, 12, 13, 14, 15, 0, 0, 0, 0, 1, 2, 3, 4, 5, 6, 7, 8, 9, 12, 13, 14, 15, 0, 0,
  0, 4, 8, 9, 10, 12, 13, 14, 15, 0, 0, 0, 0, 0, 0, 0, 0, 1, 4, 8, 9, 10, 12, 13, 14, 15, 0, 0, 0, 0, 0, 0, 0, 1, 2, 4, 8, 9, 10, 12, 13, 14, 15, 0, 0, 0, 0, 0, 0, 1, 2, 3, 4, 8, 9, 10, 12, 13, 14, 15, 0, 0, 0, 0,
  0, 4, 5, 8, 9, 10, 12, 13, 14, 15, 0, 0, 0, 0, 0, 0, 0, 1, 4, 5, 8, 9, 10, 12, 13, 14, 15, 0, 0, 0, 0, 0, 0, 1, 2, 4, 5, 8, 9, 10, 12, 13, 14, 15, 0, 0, 0, 0, 0, 1, 2, 3, 4, 5, 8, 9, 10, 12, 13, 14, 15, 0, 0, 0,
  0, 4, 5, 6, 8, 9, 10, 12, 13, 14, 15, 0, 0, 0, 0, 0, 0, 1, 4, 5, 6, 8, 9, 10, 12, 13, 14, 15, 0, 0, 0, 0, 0, 1, 2, 4, 5, 6, 8, 9, 10, 12, 13, 14, 15, 0, 0, 0, 0, 1, 2, 3, 4, 5, 6, 8, 9, 10, 12, 13, 14, 15, 0, 0,
  0, 4, 5, 6, 7, 8, 9, 10, 12, 13, 14, 15, 0, 0, 0, 0, 0, 1, 4, 5, 6, 7, 8, 9, 10, 12, 13, 14, 15, 0, 0, 0, 0, 1, 2, 4, 5, 6, 7, 8, 9, 10, 12, 13, 14, 15, 0, 0, 0, 1, 2, 3, 4, 5, 6, 7, 8, 9, 10, 12, 13, 14, 15, 0,
  0, 4, 8, 9, 10, 11, 12, 13, 14, 15, 0, 0, 0, 0, 0, 0, 0, 1, 4, 8, 9, 10, 11, 12, 13, 14, 15, 0, 0, 0, 0, 0, 0, 1, 2, 4, 8, 9, 10, 11, 12, 13, 14, 15, 0, 0, 0, 0, 0, 1, 2, 3, 4, 8, 9, 10, 11, 12, 13, 14, 15, 0, 0, 0,
  0, 4, 5, 8, 9, 10, 11, 12, 13, 14, 15, 0, 0, 0, 0, 0, 0, 1, 4, 5, 8, 9, 10, 11, 12, 13, 14, 15, 0, 0, 0, 0, 0, 1, 2, 4, 5, 8, 9, 10, 11, 12, 13, 14, 15, 0, 0, 0, 0, 1, 2, 3, 4, 5, 8, 9, 10, 11, 12, 13, 14, 15, 0, 0,
  0, 4, 5, 6, 8, 9, 10, 11, 12, 13, 14, 15, 0, 0, 0, 0, 0, 1, 4, 5, 6, 8, 9, 10, 11, 12, 13, 14, 15, 0, 0, 0, 0, 1, 2, 4, 5, 6, 8, 9, 10, 11, 12, 13, 14, 15, 0, 0, 0, 1, 2, 3, 4, 5, 6, 8, 9, 10, 11, 12, 13, 14, 15, 0,
  0, 4, 5, 6, 7, 8, 9, 10, 11, 12, 13, 14, 15, 0, 0, 0, 0, 1, 4, 5, 6, 7, 8, 9, 10, 11, 12, 13, 14, 15, 0, 0, 0, 1, 2, 4, 5, 6, 7, 8, 9, 10, 11, 12, 13, 14, 15, 0, 0, 1, 2, 3, 4, 5, 6, 7, 8, 9, 10, 11, 12, 13, 14, 15
>>

\* a table of lengths that takes every pixel as a 4-byte opcode
writer_len_full == [i \in 1..256 |-> 16]

\* writer_len[256]
writer_len == <<
  4, 5, 6, 7, 5, 6, 7, 8, 6, 7, 8, 9, 7, 8, 9, 10, 5, 6, 7, 8, 6, 7, 8, 9, 7, 8, 9, 10, 8, 9, 10, 11,
  6, 7, 8, 9, 7, 8, 9, 10, 8, 9, 10, 11, 9, 10, 11, 12, 7, 8, 9, 10, 8, 9, 10, 11, 9, 10, 11, 12, 10, 11, 12, 13,
  5, 6, 7, 8, 6, 7, 8, 9, 7, 8, 9, 10, 8, 9, 10, 11, 6, 7, 8, 9, 7, 8, 9, 10, 8, 9, 10, 11, 9, 10, 11, 12,
  7, 8, 9, 10, 8, 9, 10, 11, 9, 10, 11, 12, 10, 11, 12, 13, 8, 9, 10, 11, 9, 10, 11, 12, 10, 11, 12, 13, 11, 12, 13, 14,
  6, 7, 8, 9, 7, 8, 9, 10, 8, 9, 10, 11, 9, 10, 11, 12, 7, 8, 9, 10, 8, 9, 10, 11, 9, 10, 11, 12, 10, 11, 12, 13,
  8, 9, 10, 11, 9, 10, 11, 12, 10, 11, 12, 13, 11, 12, 13, 14, 9, 10, 11, 12, 10, 11, 12, 13, 11, 12, 13, 14, 12, 13, 14, 15,
  7, 8, 9, 10, 8, 9, 10, 11, 9, 10, 11, 12, 10, 11, 12, 13, 8, 9, 10, 11, 9, 10, 11, 12, 10, 11, 12, 13, 11, 12, 13, 14,
  9, 10, 11, 12, 10, 11, 12, 13, 11, 12, 13, 14, 12, 13, 14, 15, 10, 11, 12, 13, 11, 12, 13, 14, 12, 13, 14, 15, 13, 14, 15, 16
>>

(***************************************************************************)
(* roi.c: the SIMD macros                                                  *)
(***************************************************************************)
\* second, its value taken once first has its value: the statements of a
\* macro run in the order they are written
After(first, second) == <<first, second>>[2]

\* LOAD16: the 16 bytes at px_pos+offset and their difference to the bytes
\* one pixel earlier, the first pixel's predecessor taken from the top of prev
LOAD16(mem, px_pos, prev, offset, lshift, rshift) ==
  LET raw == _mm_loadu_si128(mem, px_pos + offset)
      d1 == _mm_slli_si128(raw, lshift)
      p1 == _mm_srli_si128(prev, rshift)
      d2 == _mm_or_si128(d1, p1)
  IN [raw |-> raw, diff |-> _mm_sub_epi8(raw, d2)]

PLANAR_SHUFFLE(source1, source2, source3, shufflemask, blend1, blend2) ==
  LET p1 == _mm_blendv_epi8(source1, source2, blend1)
      p2 == _mm_blendv_epi8(p1, source3, blend2)
  IN _mm_shuffle_epi8(p2, shufflemask)

\* the absolute value of a plane without the bias of one for the negative
\* values
ABSOLUTER_symmetric(plane) == _mm_abs_epi8(plane)

ABSOLUTER(plane) ==
  LET w2 == _mm_cmpgt_epi8(_mm_setzero_si128, plane)
      w1a == _mm_and_si128(w2, plane)
      w1b == _mm_add_epi8(w1a, _mm_set1_epi8(1))
      w1c == _mm_abs_epi8(w1b)
  IN _mm_blendv_epi8(plane, w1c, w2)

\* the four result vectors res0..res3 as a tuple; OrRes is the four
\* res=_mm_or_si128(w3, res) of a macro
ZeroRes == <<_mm_setzero_si128, _mm_setzero_si128, _mm_setzero_si128, _mm_setzero_si128>>
OrRes(res, add) ==
  After(<<res, add>>,
        << _mm_or_si128(add[1], res[1]), _mm_or_si128(add[2], res[2]),
           _mm_or_si128(add[3], res[3]), _mm_or_si128(add[4], res[4]) >>)

RECURSIVE OrRange(_, _, _)
\* the OR of the terms w[lo..hi], each a tuple of four vectors
OrRange(w, lo, hi) ==
  IF lo = hi THEN w[lo]
  ELSE OrRes(OrRange(w, lo, (lo + hi) \div 2), OrRange(w, ((lo + hi) \div 2) + 1, hi))

\* res0..res3 after every term of w has been ORed into them, from zero
OrAll(w) == After(w, OrRes(ZeroRes, OrRange(w, 1, Len(w))))

NORMALISE_SHIFT16_EMBIGGEN(plane, opmask, value, shift) ==
  LET w1 == _mm_and_si128(_mm_add_epi8(plane, value), opmask)
      lo == _mm_slli_epi16(_mm_unpacklo_epi8(w1, _mm_setzero_si128), shift)
      hi == _mm_slli_epi16(_mm_unpackhi_epi8(w1, _mm_setzero_si128), shift)
  IN << _mm_unpacklo_epi16(lo, _mm_setzero_si128), _mm_unpackhi_epi16(lo, _mm_setzero_si128),
        _mm_unpacklo_epi16(hi, _mm_setzero_si128), _mm_unpackhi_epi16(hi, _mm_setzero_si128) >>

NORMALISE_SHIFT32_EMBIGGEN(plane, opmask, value, shift) ==
  LET w1 == _mm_and_si128(_mm_add_epi8(plane, value), opmask)
      lo == _mm_unpacklo_epi8(w1, _mm_setzero_si128)
      hi == _mm_unpackhi_epi8(w1, _mm_setzero_si128)
  IN << _mm_slli_epi32(_mm_unpacklo_epi16(lo, _mm_setzero_si128), shift),
        _mm_slli_epi32(_mm_unpackhi_epi16(lo, _mm_setzero_si128), shift),
        _mm_slli_epi32(_mm_unpacklo_epi16(hi, _mm_setzero_si128), shift),
        _mm_slli_epi32(_mm_unpackhi_epi16(hi, _mm_setzero_si128), shift) >>

\* the opcode byte of every pixel, widened to the low byte of its 32-bit lane
OpcodeRes(opuse) ==
  LET lo == _mm_unpacklo_epi8(opuse, _mm_setzero_si128)
      hi == _mm_unpackhi_epi8(opuse, _mm_setzero_si128)
  IN << _mm_unpacklo_epi16(lo, _mm_setzero_si128), _mm_unpackhi_epi16(lo, _mm_setzero_si128),
        _mm_unpacklo_epi16(hi, _mm_setzero_si128), _mm_unpackhi_epi16(hi, _mm_setzero_si128) >>

\* "shift op4 g": the byte lands in the second byte of the 32-bit lane
Op4G(w1) ==
  LET lo == _mm_unpacklo_epi8(_mm_setzero_si128, w1)
      hi == _mm_unpackhi_epi8(_mm_setzero_si128, w1)
  IN << _mm_unpacklo_epi16(lo, _mm_setzero_si128), _mm_unpackhi_epi16(lo, _mm_setzero_si128),
        _mm_unpacklo_epi16(hi, _mm_setzero_si128), _mm_unpackhi_epi16(hi, _mm_setzero_si128) >>

\* "shift op4 r": third byte
Op4R(w1) ==
  LET lo == _mm_unpacklo_epi8(w1, _mm_setzero_si128)
      hi == _mm_unpackhi_epi8(w1, _mm_setzero_si128)
  IN << _mm_unpacklo_epi16(_mm_setzero_si128, lo), _mm_unpackhi_epi16(_mm_setzero_si128, lo),
        _mm_unpacklo_epi16(_mm_setzero_si128, hi), _mm_unpackhi_epi16(_mm_setzero_si128, hi) >>

\* "shift op4 b" of SSE_CAREFUL and SSE_QUICK: fourth byte
Op4B(w1) ==
  LET lo == _mm_unpacklo_epi8(_mm_setzero_si128, w1)
      hi == _mm_unpackhi_epi8(_mm_setzero_si128, w1)
  IN << _mm_unpacklo_epi16(_mm_setzero_si128, lo), _mm_unpackhi_epi16(_mm_setzero_si128, lo),
        _mm_unpacklo_epi16(_mm_setzero_si128, hi), _mm_unpackhi_epi16(_mm_setzero_si128, hi) >>

\* SSE_COMMON is modelled in stages, each stage taking the registers the
\* earlier statements of the macro have computed.
\* "convert vr, vg, vb into res0..3": res0..res3 and the planes and masks
\* SSE_CAREFUL and SSE_QUICK go on with (res without the op4 b byte)
SSE_COMMON_res(r, g, b, op1, op2, op3, op4) ==
  After(<<op2, op3, op4>>,
    [r |-> r, g |-> g, b |-> b, op1 |-> op1, op2 |-> op2, op3 |-> op3, op4 |-> op4,
     res |-> OrAll(
       << OpcodeRes(_mm_or_si128(
                      _mm_or_si128(_mm_and_si128(op2, _mm_set1_epi8(1)),
                                   _mm_and_si128(op3, _mm_set1_epi8(3))),
                      _mm_and_si128(op4, _mm_set1_epi8(-9)))),
          NORMALISE_SHIFT16_EMBIGGEN(g, op1, _mm_set1_epi8(4), 1),
          NORMALISE_SHIFT16_EMBIGGEN(r, op1, _mm_set1_epi8(2), 4),
          NORMALISE_SHIFT16_EMBIGGEN(b, op1, _mm_set1_epi8(2), 6),
          NORMALISE_SHIFT16_EMBIGGEN(g, op2, _mm_set1_epi8(32), 2),
          NORMALISE_SHIFT16_EMBIGGEN(r, op2, _mm_set1_epi8(8), 8),
          NORMALISE_SHIFT16_EMBIGGEN(b, op2, _mm_set1_epi8(8), 12),
          NORMALISE_SHIFT16_EMBIGGEN(g, op3, _mm_set1_epi8(64), 3),
          NORMALISE_SHIFT32_EMBIGGEN(r, op3, _mm_set1_epi8(64), 10),
          NORMALISE_SHIFT32_EMBIGGEN(b, op3, _mm_set1_epi8(64), 17),
          Op4G(_mm_and_si128(g, op4)),
          Op4R(_mm_and_si128(r, op4)) >>)])

\* "isolate opcodes": op4, op3 and op2 from the cumulative masks
SSE_COMMON_isolate(r, g, b, op1, op12, op123) ==
  After(<<op1, op12, op123>>,
        SSE_COMMON_res(r, g, b, op1,
                       _mm_sub_epi8(op12, op1),
                       _mm_sub_epi8(op123, op12),
                       _mm_andnot_si128(op123, _mm_set1_epi8(-1))))

\* "determine how to store pixels": the masks op1, op1|op2 and op1|op2|op3
SSE_COMMON_masks(r, g, b, ag, arb) ==
  After(<<ag, arb>>,
        SSE_COMMON_isolate(r, g, b,
          _mm_cmpgt_epi8(_mm_set1_epi8(2), _mm_or_si128(_mm_subs_epu8(ag, _mm_set1_epi8(2)), arb)),
          _mm_cmpgt_epi8(_mm_set1_epi8(8), _mm_or_si128(_mm_subs_epu8(ag, _mm_set1_epi8(24)), arb)),
          _mm_cmpgt_epi8(_mm_set1_epi8(64), _mm_or_si128(arb, ag))))

\* "get absolute values": ag and arb = ar | ab of the planes vg_r, vg, vg_b
SSE_COMMON_abs(r, g, b) ==
  After(<<r, g, b>>,
        SSE_COMMON_masks(r, g, b, ABSOLUTER(g), _mm_or_si128(ABSOLUTER(r), ABSOLUTER(b))))

\* SSE_COMMON on the planes of vr, vg, vb: "convert vr, vb to vg_r, vg_b"
SSE_COMMON(r0, g, b0) ==
  After(<<r0, g, b0>>, SSE_COMMON_abs(_mm_sub_epi8(r0, g), g, _mm_sub_epi8(b0, g)))

RECURSIVE WRITE4PIX_from(_, _, _, _, _)
\* WRITE4PIX: the four pixels of the stored vector from pixel k on; len is
\* opuse_ and off the offset of the vector's first pixel in it
WRITE4PIX_from(s, data, len, off, k) ==
  IF k > 3 THEN s
  ELSE After(s,
         IF data[4 * k] = 168
         THEN WRITE4PIX_from([s EXCEPT !.run = @ + 1], data, len, off, k + 1)
         ELSE WRITE4PIX_from(Emit(R_DUMP_RUN(s), StoredBytes(data, 4 * k, len[off + k])),
                             data, len, off, k + 1))

WRITE4PIX(s, data, len, off) == WRITE4PIX_from(s, data, len, off, 0)

\* the four WRITE4PIX of SSE_CAREFUL on res0..res3 and the lengths opuse
SSE_CAREFUL_write(s, res, opuse) ==
  After(<<res, opuse>>,
        WRITE4PIX(WRITE4PIX(WRITE4PIX(WRITE4PIX(s, res[1], opuse, 0),
                                      res[2], opuse, 4),
                            res[3], opuse, 8),
                  res[4], opuse, 12))

SSE_CAREFUL(s, c) ==
  SSE_CAREFUL_write(s,
    OrRes(c.res, Op4B(_mm_and_si128(c.b, c.op4))),
    _mm_or_si128(
      _mm_or_si128(_mm_and_si128(c.op1, _mm_set1_epi8(1)),
                   _mm_and_si128(c.op2, _mm_set1_epi8(2))),
      _mm_or_si128(_mm_and_si128(c.op3, _mm_set1_epi8(3)),
                   _mm_and_si128(c.op4, _mm_set1_epi8(4)))))

\* the 16 bytes of writer_lut at element idx of the table read as vectors
WriterLutVec(idx) == Vec(<<>>, [i \in Lanes |-> writer_lut[16 * idx + i + 1]])

RECURSIVE QuickWrite(_, _, _, _)
\* the "write vec" steps from res[k] on: the shuffled vector is stored at the
\* cursor and the cursor moves by writer_len, the bytes beyond it are
\* overwritten later; idx[k] is the lut index of res[k]
QuickWrite(s, res, idx, k) ==
  IF k > 4 THEN s
  ELSE After(s,
         QuickWrite(Emit(s, StoredBytes(_mm_shuffle_epi8(res[k], WriterLutVec(idx[k])),
                                        0, writer_len[idx[k] + 1])),
                    res, idx, k + 1))

\* the four writes of SSE_QUICK on res0..res3 and the masks lut_lo, lut_hi
SSE_QUICK_write(s, res, lut_lo, lut_hi) ==
  After(<<res, lut_lo, lut_hi>>,
        QuickWrite(s, res,
                   << BitAnd(lut_lo, 255), BitAnd(Shr(lut_lo, 8), 255),
                      BitAnd(lut_hi, 255), BitAnd(Shr(lut_hi, 8), 255) >>, 1))

SSE_QUICK(s, c) ==
  SSE_QUICK_write(s,
    OrRes(c.res, Op4B(_mm_and_si128(c.b, c.op4))),
    _mm_movemask_epi8(
      _mm_or_si128(
        _mm_or_si128(_mm_unpacklo_epi8(c.op2, _mm_setzero_si128),
                     _mm_unpacklo_epi8(_mm_setzero_si128, c.op3)),
        _mm_unpacklo_epi8(c.op4, c.op4))),
    _mm_movemask_epi8(
      _mm_or_si128(
        _mm_or_si128(_mm_unpackhi_epi8(c.op2, _mm_setzero_si128),
                     _mm_unpackhi_epi8(_mm_setzero_si128, c.op3)),
        _mm_unpackhi_epi8(c.op4, c.op4))))

\* the choice of the writer with the quick writer entered as the run stands
SSE_Write_pending(s, c) ==
  LET oprun == _mm_cmpeq_epi8(_mm_or_si128(c.r, _mm_or_si128(c.g, c.b)), _mm_set1_epi8(0))
  IN IF ~_mm_testz_si128(oprun, oprun)
     THEN SSE_CAREFUL(s, c)
     ELSE SSE_QUICK(s, c)

\* the choice between the careful and the quick writer on the planes of c
SSE_Write(s, c) ==
  LET oprun == _mm_cmpeq_epi8(_mm_or_si128(c.r, _mm_or_si128(c.g, c.b)), _mm_set1_epi8(0))
  IN IF ~_mm_testz_si128(oprun, oprun)
     THEN SSE_CAREFUL(s, c)
     ELSE SSE_QUICK(R_DUMP_RUN(s), c)

\* the tail both SIMD encoders share after the planes are extracted
SSE_Block(s, r, g, b) == SSE_Write(s, SSE_COMMON(r, g, b))

rshuf3 == _mm_setr_epi8(<<0,3,6,9,12,15, 2,5,8,11,14, 1,4,7,10,13>>)
gshuf3 == _mm_setr_epi8(<<1,4,7,10,13, 0,3,6,9,12,15, 2,5,8,11,14>>)
bshuf3 == _mm_setr_epi8(<<2,5,8,11,14, 1,4,7,10,13, 0,3,6,9,12,15>>)
blend1 == _mm_setr_epi8(<<0,0,-1,0,0,-1,0,0,-1,0,0,-1,0,0,-1,0>>)
blend2 == _mm_setr_epi8(<<0,-1,0,0,-1,0,0,-1,0,0,-1,0,0,-1,0,0>>)

RECURSIVE R_chunk3_sse_for(_, _, _)
\* the for loop of qoi_encode_chunk3_sse; cc holds the last 16 bytes loaded
R_chunk3_sse_for(s, cc, mem) ==
  IF ~(s.px_pos < s.pixel_cnt * 3)
  THEN [s EXCEPT !.px = [@ EXCEPT !.r = cc[13], !.g = cc[14], !.b = cc[15]]]
  ELSE LET la == LOAD16(mem, s.px_pos, cc, 0, 3, 13)
           lb == LOAD16(mem, s.px_pos, la.raw, 16, 3, 13)
           lc == LOAD16(mem, s.px_pos, lb.raw, 32, 3, 13)
           da == la.diff
           db == lb.diff
           dc == lc.diff
       IN IF _mm_test_all_zeros(_mm_or_si128(da, _mm_or_si128(db, dc)), _mm_set1_epi8(-1))
          THEN R_chunk3_sse_for([s EXCEPT !.run = @ + 16, !.px_pos = @ + 48], lc.raw, mem)
          ELSE LET r == PLANAR_SHUFFLE(da, db, dc, rshuf3, blend1, blend2)
                   g == PLANAR_SHUFFLE(db, dc, da, gshuf3, blend1, blend2)
                   b == PLANAR_SHUFFLE(dc, da, db, bshuf3, blend1, blend2)
               IN R_chunk3_sse_for([SSE_Block(s, r, g, b) EXCEPT !.px_pos = @ + 48],
                                   lc.raw, mem)

R_qoi_encode_chunk3_sse(s, mem) ==
  R_chunk3_sse_for(s,
    _mm_setr_epi8(<<0, 0, 0, 0, 0, 0, 0, 0, 0, 0, 0, 0, 0, s.px.r, s.px.g, s.px.b>>), mem)

shuf1 == _mm_setr_epi8(<<0,4,8,12,1,5,9,13,2,6,10,14,3,7,11,15>>)
shuf2 == _mm_setr_epi8(<<1,5,9,13,0,4,8,12,3,7,11,15,2,6,10,14>>)
gshuf4 == _mm_setr_epi8(<<8,9,10,11,12,13,14,15,0,1,2,3,4,5,6,7>>)
blend4 == _mm_setr_epi8(<<0, 0, 0, 0, 0, 0, 0, 0, -1, -1, -1, -1, -1, -1, -1, -1>>)

RECURSIVE R_chunk4_sse_for(_, _, _)
\* the for loop of qoi_encode_chunk4_sse; id holds the last 16 bytes loaded
R_chunk4_sse_for(s, id, mem) ==
  IF ~(s.px_pos < s.pixel_cnt * 4)
  THEN [s EXCEPT !.px = Px(id[12], id[13], id[14], id[15])]
  ELSE LET previous == _mm_and_si128(id, id)
           la == LOAD16(mem, s.px_pos, id, 0, 4, 12)
           lb == LOAD16(mem, s.px_pos, la.raw, 16, 4, 12)
           lc == LOAD16(mem, s.px_pos, lb.raw, 32, 4, 12)
           ld == LOAD16(mem, s.px_pos, lc.raw, 48, 4, 12)
           w1 == _mm_shuffle_epi8(la.diff, shuf1)
           w2 == _mm_shuffle_epi8(lb.diff, shuf1)
           w3 == _mm_shuffle_epi8(lc.diff, shuf2)
           w4 == _mm_shuffle_epi8(ld.diff, shuf2)
           w5 == _mm_unpackhi_epi32(w1, w2)
           w6 == _mm_unpackhi_epi32(w3, w4)
           a == _mm_blendv_epi8(w6, w5, blend4)
       IN IF _mm_test_all_zeros(_mm_or_si128(_mm_or_si128(la.diff, lb.diff),
                                             _mm_or_si128(lc.diff, ld.diff)),
                                _mm_set1_epi8(-1))
          THEN R_chunk4_sse_for([s EXCEPT !.run = @ + 16, !.px_pos = @ + 64], ld.raw, mem)
          ELSE IF ~_mm_test_all_zeros(a, _mm_set1_epi8(-1))
          THEN \* alpha present: enc_arr[1] over this block, from the pixel before it
               LET sc == R_qoi_encode_chunk4_scalar(
                           [s EXCEPT !.px = Px(previous[12], previous[13],
                                               previous[14], previous[15]),
                                     !.pixel_cnt = (s.px_pos \div 4) + 16], mem)
               IN R_chunk4_sse_for([sc EXCEPT !.px_pos = (@ - 64) + 64,
                                              !.pixel_cnt = s.pixel_cnt], ld.raw, mem)
          ELSE LET b == _mm_blendv_epi8(w5, w6, blend4)
                   x1 == _mm_unpacklo_epi32(w1, w2)
                   x2 == _mm_unpacklo_epi32(w3, w4)
                   r == _mm_blendv_epi8(x1, x2, blend4)
                   g == _mm_shuffle_epi8(_mm_blendv_epi8(x2, x1, blend4), gshuf4)
               IN R_chunk4_sse_for([SSE_Block(s, r, g, b) EXCEPT !.px_pos = @ + 64],
                                   ld.raw, mem)

R_qoi_encode_chunk4_sse(s, mem) ==
  R_chunk4_sse_for(s,
    _mm_setr_epi8(<<0, 0, 0, 0, 0, 0, 0, 0, 0, 0, 0, 0, s.px.r, s.px.g, s.px.b, s.px.a>>), mem)

\* enc_arr[ENC_ARR_INDEX](s) with ENC_ARR_INDEX = (opt->path<<1)|(desc->channels-3)
R_ENC_ARR_INDEX(path, channels) == BitOr(Shl(path, 1), channels - 3)
R_enc_arr(i, s, mem) ==
  CASE i = 0 -> R_qoi_encode_chunk3_scalar(s, mem)
    [] i = 1 -> R_qoi_encode_chunk4_scalar(s, mem)
    [] i = 2 -> R_qoi_encode_chunk3_sse(s, mem)
    [] i = 3 -> R_qoi_encode_chunk4_sse(s, mem)

(***************************************************************************)
(* roi.c: the mega-LUT                                                     *)
(***************************************************************************)
\* the five bytes gen_mlut stores at mlut[5*d.v..5*d.v+4] for d.rgba =
\* (rr, gg, bb) given as bytes: the length, then the opcode in zeroed memory
\* gen_mlut with the two-byte class taken one step of green too far
gen_mlut_entry_wide(rr, gg, bb) ==
  LET vg == SChar(gg)
      vg_r == SChar(rr - vg)
      vg_b == SChar(bb - vg)
      ar == AbsBias(vg_r)
      ag == AbsBias(vg)
      ab == AbsBias(vg_b)
      arb == BitOr(ar, ab)
  IN IF arb < 2 /\ ag < 4 THEN
       <<1, UChar(BitOr(R_QOI_OP_LUMA232,
                    BitOr(Shl(vg_b + 2, 6), BitOr(Shl(vg_r + 2, 4), Shl(vg + 4, 1))))), 0, 0, 0>>
     ELSE IF arb < 8 /\ ag <= 32 THEN
       LET val == BitOr(R_QOI_OP_LUMA464,
                    BitOr(Shl(vg_b + 8, 12), BitOr(Shl(vg_r + 8, 8), Shl(vg + 32, 2))))
       IN <<2, BitAnd(val, 255), BitAnd(Shr(val, 8), 255), 0, 0>>
     ELSE IF BitOr(arb, ag) < 64 THEN
       LET val == BitOr(R_QOI_OP_LUMA777,
                    BitOr(Shl(vg_b + 64, 17), BitOr(Shl(vg_r + 64, 10), Shl(vg + 64, 3))))
       IN <<3, BitAnd(val, 255), BitAnd(Shr(val, 8), 255), BitAnd(Shr(val, 16), 255), 0>>
     ELSE <<4, R_QOI_OP_RGB, UChar(vg), UChar(vg_r), UChar(vg_b)>>

gen_mlut_entry(rr, gg, bb) ==
  LET vg == SChar(gg)
      vg_r == SChar(rr - vg)
      vg_b == SChar(bb - vg)
      ar == AbsBias(vg_r)
      ag == AbsBias(vg)
      ab == AbsBias(vg_b)
      arb == BitOr(ar, ab)
  IN IF arb < 2 /\ ag < 4 THEN
       <<1, UChar(BitOr(R_QOI_OP_LUMA232,
                    BitOr(Shl(vg_b + 2, 6), BitOr(Shl(vg_r + 2, 4), Shl(vg + 4, 1))))), 0, 0, 0>>
     ELSE IF arb < 8 /\ ag < 32 THEN
       LET val == BitOr(R_QOI_OP_LUMA464,
                    BitOr(Shl(vg_b + 8, 12), BitOr(Shl(vg_r + 8, 8), Shl(vg + 32, 2))))
       IN <<2, BitAnd(val, 255), BitAnd(Shr(val, 8), 255), 0, 0>>
     ELSE IF BitOr(arb, ag) < 64 THEN
       LET val == BitOr(R_QOI_OP_LUMA777,
                    BitOr(Shl(vg_b + 64, 17), BitOr(Shl(vg_r + 64, 10), Shl(vg + 64, 3))))
       IN <<3, BitAnd(val, 255), BitAnd(Shr(val, 8), 255), BitAnd(Shr(val, 16), 255), 0>>
     ELSE <<4, R_QOI_OP_RGB, UChar(vg), UChar(vg_r), UChar(vg_b)>>

\* qoi_mlut[i] of the table gen_mlut writes; d.v = r | g<<8 | b<<16
qoi_mlut(i) ==
  LET v == i \div 5
  IN gen_mlut_entry(v % 256, (v \div 256) % 256, (v \div 65536) % 256)[(i % 5) + 1]

\* the table lookup of the mlut encoders: four bytes are copied from
\* qoi_mlut+diff.v*5+1 and the cursor moves by qoi_mlut[diff.v*5]
R_RGB_ENC_MLUT(s, px_prev) ==
  LET dv == UChar(s.px.r - px_prev.r) + 256 * UChar(s.px.g - px_prev.g)
              + 65536 * UChar(s.px.b - px_prev.b)
      word == [k \in 1..4 |-> qoi_mlut(dv * 5 + k)]
  IN Emit(s, SubSeq(word, 1, qoi_mlut(dv * 5)))

\* one pass through the loop body of qoi_encode_chunk3_mlut (ch = 3) or
\* qoi_encode_chunk4_mlut (ch = 4), as R_scalar_pixel
R_mlut_pixel(s, mem, px_end, ch) ==
  LET px_prev == s.px
      s0 == [s EXCEPT !.px = IF ch = 4 THEN ENC_READ_RGBA(mem, s.px_pos)
                                       ELSE R_ENC_READ_RGB(mem, s.px_pos)]
  IN IF s0.px = px_prev
     THEN LET s1 == [s0 EXCEPT !.run = @ + 1, !.px_pos = @ + ch] IN
          IF s0.px_pos = px_end THEN R_DUMP_RUN_FULL(s1) ELSE s1
     ELSE LET s2 == R_DUMP_RUN(s0)
              s3 == IF ch = 4 THEN R_AlphaOp(s2, px_prev) ELSE s2
          IN [R_RGB_ENC_MLUT(s3, px_prev) EXCEPT !.px_pos = @ + ch]

RECURSIVE R_mlut_passes(_, _, _, _, _)
R_mlut_passes(s, mem, px_end, ch, n) ==
  IF n = 0 \/ s.px_pos > px_end THEN s
  ELSE IF n = 1 THEN R_mlut_pixel(s, mem, px_end, ch)
  ELSE R_mlut_passes(R_mlut_passes(s, mem, px_end, ch, n \div 2),
                     mem, px_end, ch, n - (n \div 2))

R_qoi_encode_chunk3_mlut(s, mem) ==
  LET px_end == (s.pixel_cnt - 1) * 3
  IN R_mlut_passes(s, mem, px_end, 3, Passes(s, px_end, 3))

R_qoi_encode_chunk4_mlut(s, mem) ==
  LET px_end == (s.pixel_cnt - 1) * 4
  IN R_mlut_passes(s, mem, px_end, 4, Passes(s, px_end, 4))

(***************************************************************************)
(* qoi.h: qoi_encode and qoi_decode                                        *)
(***************************************************************************)
\* qoi_encode_init with a previous pixel of (0,0,0,0)
qoi_encode_init_transparent(v, d) ==
  LET hd == QOI_MAGIC(v) \o qoi_write_32(d.width) \o qoi_write_32(d.height)
              \o <<d.channels, d.colorspace>>
  IN [bytes |-> hd, b |-> Len(hd), px |-> Px(0, 0, 0, 0),
      px_pos |-> 0, run |-> 0, pixel_cnt |-> 0, index |-> ZeroIndex]

\* the state qoi_encode has after enc_state s={0} and qoi_encode_init: the
\* header is written, the cursor is behind it, the previous pixel is
\* (0,0,0,255)
qoi_encode_init(v, d) ==
  LET hd == QOI_MAGIC(v) \o qoi_write_32(d.width) \o qoi_write_32(d.height)
              \o <<d.channels, d.colorspace>>
  IN [bytes |-> hd, b |-> Len(hd), px |-> Px(0, 0, 0, 255),
      px_pos |-> 0, run |-> 0, pixel_cnt |-> 0, index |-> ZeroIndex]

\* the parameter check of qoi_encode; data_null stands for a NULL argument
qoi_encode_rejects(data_null, d, o) ==
  \/ data_null
  \/ d.width = 0
  \/ d.height = 0
  \/ d.channels < 3
  \/ d.channels > 4
  \/ d.colorspace > 1
  \/ d.height >= QOI_PIXELS_MAX \div d.width
  \/ o.path > 1

QOI_PIXEL_WORST_CASE(v, channels) ==
  IF v = "R" THEN R_QOI_PIXEL_WORST_CASE(channels) ELSE Q_QOI_PIXEL_WORST_CASE(channels)

\* enc_chunk_arr[ENC_ARR_INDEX](s): the Q table of qoi.c, the R table of roi.c
enc_chunk_arr(v, d, o, s, mem) ==
  IF v = "R" THEN R_enc_arr(R_ENC_ARR_INDEX(o.path, d.channels), s, mem)
  ELSE IF d.channels = 3 THEN Q_qoi_encode_chunk3_scalar(s, mem)
  ELSE Q_qoi_encode_chunk4_scalar(s, mem)

\* enc_finish_arr[ENC_ARR_INDEX](s): the scalar encoder of the channel count
enc_finish_arr(v, d, o, s, mem) ==
  IF v = "R" THEN (IF d.channels = 3 THEN R_qoi_encode_chunk3_scalar(s, mem)
                                     ELSE R_qoi_encode_chunk4_scalar(s, mem))
  ELSE IF d.channels = 3 THEN Q_qoi_encode_chunk3_scalar(s, mem)
  ELSE Q_qoi_encode_chunk4_scalar(s, mem)

DUMP_RUN(v, s) == IF v = "R" THEN R_DUMP_RUN(s) ELSE Q_DUMP_RUN(s)

NoResult == [called |-> FALSE, ok |-> FALSE]
Failure == [called |-> TRUE, ok |-> FALSE]

\* the return of qoi_encode: the bytes written, with *out_len; max_size is the
\* size of the allocation
qoi_encode_return(s, max_size) ==
  [called |-> TRUE, ok |-> TRUE, bytes |-> s.bytes, out_len |-> s.b, max_size |-> max_size]

\* qoi_encode after the whole chunks: the pixels left over, the pending run
\* and the padding
qoi_encode_finish(v, data, d, o, n, s) ==
  After(s,
    qoi_encode_return(
      Emit(DUMP_RUN(v, IF n % CHUNK # 0
                       THEN enc_finish_arr(v, d, o, [s EXCEPT !.pixel_cnt = n], data)
                       ELSE s),
           qoi_padding),
      n * QOI_PIXEL_WORST_CASE(v, d.channels) + QOI_HEADER_SIZE + Len(qoi_padding)))

\* qoi_encode from the initialised state s on: the whole chunks first
qoi_encode_chunks(v, data, d, o, n, s) ==
  After(s,
    qoi_encode_finish(v, data, d, o, n,
      IF n \div CHUNK # 0
      THEN enc_chunk_arr(v, d, o, [s EXCEPT !.pixel_cnt = n - (n % CHUNK)], data)
      ELSE s))

\* qoi_encode: a failure (NULL), or the bytes written with *out_len
qoi_encode(v, data, d, o) ==
  IF qoi_encode_rejects(FALSE, d, o) THEN Failure
  ELSE
    qoi_encode_chunks(v, data, d, o, d.width * d.height, qoi_encode_init(v, d))

\* the descriptor qoi_decode reads from the header
HeaderDesc(data) ==
  [width |-> qoi_read_32(data, 4), height |-> qoi_read_32(data, 8),
   channels |-> data[13], colorspace |-> data[14]]

\* the check of qoi_decode on the header it has read
\* the check of qoi_decode with a pixel count of exactly the limit let through
qoi_decode_rejects_above(v, data) ==
  LET d == HeaderDesc(data) IN
  \/ d.width = 0
  \/ d.height = 0
  \/ d.channels < 3
  \/ d.channels > 4
  \/ d.colorspace > 3
  \/ SubSeq(data, 1, 4) # QOI_MAGIC(v)
  \/ d.height > QOI_PIXELS_MAX \div d.width

qoi_decode_rejects(v, data) ==
  LET d == HeaderDesc(data) IN
  \/ d.width = 0
  \/ d.height = 0
  \/ d.channels < 3
  \/ d.channels > 4
  \/ d.colorspace > 3
  \/ SubSeq(data, 1, 4) # QOI_MAGIC(v)
  \/ d.height >= QOI_PIXELS_MAX \div d.width

dec_arr(v, i, s) == IF v = "R" THEN R_dec_arr(i, s) ELSE Q_dec_arr(i, s)

\* the return of qoi_decode: the descriptor and the pixel buffer
qoi_decode_return(d, ch, s) ==
  [called |-> TRUE, ok |-> TRUE, desc |-> d, channels |-> ch,
   p_limit |-> s.p_limit, pixels |-> s.pixels, b |-> s.b]

\* qoi_decode once the header d is accepted: ch channels are written
qoi_decode_pixels(v, data, size, d, ch) ==
  qoi_decode_return(d, ch,
    dec_arr(v, DEC_ARR_INDEX(d.channels, ch),
            [bytes |-> data, b |-> QOI_HEADER_SIZE, px |-> Px(0, 0, 0, 255),
             index |-> ZeroIndex, b_limit |-> size, b_present |-> size,
             p_limit |-> d.width * d.height * ch, px_pos |-> 0, run |-> 0,
             pixel_cnt |-> d.width * d.height, pixel_curr |-> 0, pixels |-> <<>>]))

\* qoi_decode: a failure (NULL), or the descriptor and the pixel buffer of
\* p_limit bytes, of which the decoder has written the first Len(pixels)
qoi_decode(v, data, size, channels) ==
  IF (channels # 0 /\ channels # 3 /\ channels # 4)
       \/ size < QOI_HEADER_SIZE + Len(qoi_padding)
  THEN Failure
  ELSE IF qoi_decode_rejects(v, data) THEN Failure
  ELSE
    qoi_decode_pixels(v, data, size, HeaderDesc(data),
                      IF channels = 0 THEN HeaderDesc(data).channels ELSE channels)

(***************************************************************************)
(* The callers' inputs                                                     *)
(***************************************************************************)
\* an image is built from at most MaxSegs segments
MaxSegs == 2
\* the number of pixels of a segment of changing colour
RampLen == 3

\* the colours a segment starts with: the initial previous pixel, and a
\* colour far from it with another alpha
Colours == {Px(0, 0, 0, 255), Px(130, 200, 7, 100)}

\* the step from one pixel of a segment to the next; one for each size of
\* colour opcode of the two variants, and a step of the alpha alone
NoDelta == Px(0, 0, 0, 0)
Deltas ==
  {Px(1, 1, 0, 0), Px(10, 8, 5, 0), Px(60, 40, 20, 0), Px(128, 0, 0, 0), Px(0, 0, 0, 3)}

\* a run long enough for a width of more than one byte
LongRun == 260

\* the lengths of a run: one pixel, one more than a full run opcode holds,
\* or LongRun
RunLens(v) ==
  {1, (IF v = "R" THEN R_QOI_RUN_FULL_VAL ELSE Q_QOI_RUN_FULL_VAL) + 1, LongRun}

\* the segments of the codec specification: runs and ramps
Segments(v) ==
  {[c |-> c, d |-> NoDelta, k |-> k] : c \in Colours, k \in RunLens(v)}
    \cup {[c |-> c, d |-> d, k |-> RampLen] : c \in Colours, d \in Deltas}

\* the segments of the SIMD specification: runs of one pixel, of a whole
\* SIMD block and of one pixel more, and blocks without a repeated pixel
SimdSegments ==
  {[c |-> c, d |-> NoDelta, k |-> k] : c \in Colours, k \in {1, SSE_BLOCK, SSE_BLOCK + 1}}
    \cup {[c |-> c, d |-> d, k |-> SSE_BLOCK] :
            c \in Colours, d \in {Px(1, 1, 0, 0), Px(60, 40, 20, 0)}}

\* the colorspace values and requested channel counts the callers pass
Colorspaces == {0, 1, 2}
Requested == {0, 3, 4, 5}
\* the numbers of rows the pixels are presented as
Rows == {1, 2}

\* k pixels of ch bytes: c, c+d, c+2d, ...
Ramp(c, d, k, ch) ==
  [i \in 1..(k * ch) |->
     LET j == (i - 1) \div ch
         e == (i - 1) % ch
     IN IF e = 0 THEN UChar(c.r + j * d.r)
        ELSE IF e = 1 THEN UChar(c.g + j * d.g)
        ELSE IF e = 2 THEN UChar(c.b + j * d.b)
        ELSE UChar(c.a + j * d.a)]

(***************************************************************************)
(* The codec: a caller builds an image, encodes it and decodes the result  *)
(***************************************************************************)
Init ==
  /\ pc = "input"
  /\ variant \in {"R", "Q"}
  /\ desc \in [width : {0}, height : {1}, channels : {3, 4}, colorspace : {0}]
  /\ opt = [path |-> 0]
  /\ pixels = <<>>
  /\ nseg = 0
  /\ enc = NoResult
  /\ alt = NoResult
  /\ req = 0
  /\ dec = NoResult
  /\ file = <<>>
  /\ fio = NoResult

\* the caller appends a segment to the image, one row of pixels
AddSeg(c, d, k) ==
  /\ pc = "input"
  /\ nseg < MaxSegs
  /\ pixels' = pixels \o Ramp(c, d, k, desc.channels)
  /\ nseg' = nseg + 1
  /\ desc' = [desc EXCEPT !.width = @ + k]
  /\ UNCHANGED <<pc, variant, opt, enc, alt, req, dec, file, fio>>

\* qoi_encode(pixels, &desc, &out_len, &opt), the pixels taken as h rows
Encode(cs, h) ==
  /\ pc = "input"
  /\ desc.width % h = 0
  /\ desc' = [desc EXCEPT !.width = @ \div h, !.height = h, !.colorspace = cs]
  /\ enc' = qoi_encode(variant, pixels, desc', opt)
  /\ pc' = "encoded"
  /\ UNCHANGED <<variant, opt, pixels, nseg, alt, req, dec, file, fio>>

\* qoi_decode(bytes, out_len, &desc, channels) on the encoder's output
Decode(channels) ==
  /\ pc = "encoded"
  /\ enc.ok
  /\ req' = channels
  /\ dec' = qoi_decode(variant, enc.bytes, enc.out_len, channels)
  /\ pc' = "decoded"
  /\ UNCHANGED <<variant, desc, opt, pixels, nseg, enc, alt, file, fio>>

Next ==
  \/ \E g \in Segments(variant) : AddSeg(g.c, g.d, g.k)
  \/ \E cs \in Colorspaces, h \in Rows : Encode(cs, h)
  \/ \E channels \in Requested : Decode(channels)

Spec == Init /\ [][Next]_vars

(***************************************************************************)
(* Properties of the codec                                                 *)
(***************************************************************************)
\* the number of pixels of the image the caller has encoded
PixelCount == desc.width * desc.height

\* C1: R variant round trip: qoi_decode of the scalar encoder's output with
\* the image's own channel count returns exactly the width*height*channels
\* bytes that were encoded, in order
C1_RoundTripR ==
  (variant = "R" /\ pc = "decoded" /\ req = desc.channels)
    => /\ dec.ok
       /\ Len(dec.pixels) = PixelCount * desc.channels
       /\ dec.pixels = pixels

\* an R image of a long run followed by a ramp has been encoded and decoded
C1_Witness ==
  /\ variant = "R" /\ pc = "decoded" /\ req = desc.channels /\ dec.ok
  /\ nseg = 2
  /\ PixelCount = LongRun + RampLen
  /\ pixels[1] # pixels[Len(pixels) - desc.channels + 1]

\* C2: Q variant round trip: qoi_decode of the Q encoder's output with the
\* image's own channel count returns exactly the bytes that were encoded
C2_RoundTripQ ==
  (variant = "Q" /\ pc = "decoded" /\ req = desc.channels)
    => /\ dec.ok
       /\ Len(dec.pixels) = PixelCount * desc.channels
       /\ dec.pixels = pixels

\* a Q image of two ramps, the second returning to colours the first went
\* through (index opcodes), has been encoded and decoded
C2_Witness ==
  /\ variant = "Q" /\ pc = "decoded" /\ req = desc.channels /\ dec.ok
  /\ nseg = 2
  /\ PixelCount = 2 * RampLen
  /\ SubSeq(pixels, 1, RampLen * desc.channels)
       = SubSeq(pixels, RampLen * desc.channels + 1, Len(pixels))
  /\ pixels[1] # pixels[desc.channels + 1]

\* C5: channel expansion: a 3-channel stream decoded with 4 requested
\* channels has the R, G, B of its 3-channel decoding and alpha 255 in every
\* pixel; a 4-channel stream decoded with 3 requested channels has the
\* R, G, B of its 4-channel decoding in every pixel
C5_ChannelExpansion ==
  (pc = "decoded" /\ req \in {3, 4} /\ req # desc.channels)
    => LET same == qoi_decode(variant, enc.bytes, enc.out_len, desc.channels)
       IN /\ dec.ok
          /\ same.ok
          /\ Len(dec.pixels) = PixelCount * req
          /\ \A p \in 0..(PixelCount - 1) :
               /\ \A e \in 1..3 :
                    dec.pixels[p * req + e] = same.pixels[p * desc.channels + e]
               /\ req = 4 => dec.pixels[p * 4 + 4] = 255

\* a 4-channel image whose alpha changes has been decoded to 3 channels
C5_Witness ==
  /\ pc = "decoded" /\ dec.ok
  /\ desc.channels = 4 /\ req = 3
  /\ PixelCount >= 2
  /\ \E p \in 1..(PixelCount - 1) : pixels[p * 4 + 4] # pixels[4]

\* C6: stream layout: the output of a successful qoi_encode is the magic of
\* the variant, the width and the height most significant byte first, the
\* channel count, the colorspace, the opcodes and the eight bytes
\* 0 0 0 0 0 0 0 1; the length reported is the number of bytes written
C6_StreamLayout ==
  (enc.called /\ enc.ok)
    => /\ enc.out_len = Len(enc.bytes)
       /\ enc.out_len >= 14 + 8
       /\ SubSeq(enc.bytes, 1, 4) = (IF variant = "R" THEN <<114, 111, 105, 102>>
                                                     ELSE <<113, 111, 105, 102>>)
       /\ enc.bytes[5] * 16777216 + enc.bytes[6] * 65536
            + enc.bytes[7] * 256 + enc.bytes[8] = desc.width
       /\ enc.bytes[9] * 16777216 + enc.bytes[10] * 65536
            + enc.bytes[11] * 256 + enc.bytes[12] = desc.height
       /\ enc.bytes[13] = desc.channels
       /\ enc.bytes[14] = desc.colorspace
       /\ SubSeq(enc.bytes, enc.out_len - 7, enc.out_len) = <<0, 0, 0, 0, 0, 0, 0, 1>>

\* an image wider than 255 pixels, with colorspace 1, has been encoded
C6_Witness ==
  /\ pc = "encoded" /\ enc.ok
  /\ desc.width > 255
  /\ desc.colorspace = 1
  /\ enc.out_len > 14 + 8

\* C9: requested channels: qoi_decode fails for a requested count other than
\* 0, 3 and 4; with 0 it writes the header's count of bytes per pixel, with 3
\* or 4 that many; the descriptor returned is the one of the header
C9_RequestedChannels ==
  (pc = "decoded")
    => /\ req \notin {0, 3, 4} => ~dec.ok
       /\ req = 0 => dec.ok /\ Len(dec.pixels) = PixelCount * desc.channels
       /\ req \in {3, 4} => dec.ok /\ Len(dec.pixels) = PixelCount * req
       /\ dec.ok => dec.desc = desc

\* a stream has been decoded with 4 requested channels although its header
\* says 3, and the descriptor returned says 3
C9_Witness ==
  /\ pc = "decoded" /\ dec.ok
  /\ req = 4 /\ desc.channels = 3
  /\ dec.desc.channels = 3
  /\ PixelCount > 1

\* a call with a channel count that is not 0, 3 or 4 has been refused
C9_WitnessRefused ==
  pc = "decoded" /\ req = 5 /\ ~dec.ok

(***************************************************************************)
\* the opcode bytes of an encoded stream: what lies between the header and
\* the padding
OpBytes(bytes) == SubSeq(bytes, QOI_HEADER_SIZE + 1, Len(bytes) - Len(qoi_padding))

\* a byte that stands for repeated pixels, as the decoders read it: the run
\* tag, and not the byte of the RGB or RGBA opcode
IsRunByte(v, b1) ==
  IF v = "R"
  THEN BitAnd(b1, R_QOI_MASK_3) = R_QOI_OP_RUN /\ b1 # R_QOI_OP_RGB /\ b1 # R_QOI_OP_RGBA
  ELSE BitAnd(b1, Q_QOI_MASK_2) = Q_QOI_OP_RUN /\ b1 # Q_QOI_OP_RGB /\ b1 # Q_QOI_OP_RGBA

\* the number of bytes of the opcode that starts with b1, as the decoders
\* consume it; the RGBA opcode of the R variant is two bytes in front of the
\* colour opcode of the same pixel
OpLength(v, b1) ==
  IF v = "R"
  THEN IF b1 = R_QOI_OP_RGBA THEN 2
       ELSE IF b1 = R_QOI_OP_RGB THEN 4
       ELSE IF BitAnd(b1, R_QOI_MASK_1) = R_QOI_OP_LUMA232 THEN 1
       ELSE IF BitAnd(b1, R_QOI_MASK_2) = R_QOI_OP_LUMA464 THEN 2
       ELSE IF BitAnd(b1, R_QOI_MASK_3) = R_QOI_OP_LUMA777 THEN 3
       ELSE 1
  ELSE IF b1 = Q_QOI_OP_RGBA THEN 5
       ELSE IF b1 = Q_QOI_OP_RGB THEN 4
       ELSE IF BitAnd(b1, Q_QOI_MASK_2) = Q_QOI_OP_LUMA THEN 2
       ELSE 1

\* the mark that stands for the opcode of one pixel that is not in a run
PixelOp == 0 - 1

RECURSIVE OpItems(_, _, _)
\* the opcodes from C index p on, in stream order: every run byte as itself,
\* every other pixel's opcode as PixelOp
OpItems(v, ops, p) ==
  IF p >= Len(ops) THEN <<>>
  ELSE IF IsRunByte(v, ops[p + 1]) THEN <<ops[p + 1]>> \o OpItems(v, ops, p + 1)
  ELSE IF v = "R" /\ ops[p + 1] = R_QOI_OP_RGBA THEN OpItems(v, ops, p + 2)
  ELSE <<PixelOp>> \o OpItems(v, ops, p + OpLength(v, ops[p + 1]))

\* the pixel i (from 1) of an image of ch bytes a pixel
ImagePixel(mem, i, ch) == SubSeq(mem, (i - 1) * ch + 1, i * ch)

\* pixel i repeats the pixel before it.  The pixel before the first one is
\* the initial previous pixel (0,0,0,255); the first pixel of a 3-channel
\* image of the R variant never counts as a repetition
Repeats(v, mem, i, ch) ==
  IF i > 1 THEN ImagePixel(mem, i, ch) = ImagePixel(mem, i - 1, ch)
  ELSE IF ch = 4 THEN ImagePixel(mem, 1, 4) = <<0, 0, 0, 255>>
  ELSE v = "Q" /\ ImagePixel(mem, 1, 3) = <<0, 0, 0>>

\* the run opcodes for n repeated pixels: floor(n/K) full-run bytes, then one
\* RUN byte with payload (n mod K) - 1 if n mod K is not 0
RunBytes(v, n) ==
  LET K == IF v = "R" THEN R_QOI_RUN_FULL_VAL ELSE Q_QOI_RUN_FULL_VAL
      full == IF v = "R" THEN 239 ELSE 253
      last == IF v = "R" THEN 7 + 8 * ((n % K) - 1) ELSE 192 + ((n % K) - 1)
  IN [i \in 1..(n \div K) |-> full] \o (IF n % K # 0 THEN <<last>> ELSE <<>>)

RECURSIVE RunItems(_, _, _, _)
\* the items expected for the pixels after pixel `from`: the pixels up to the
\* next one of `others` (the pixels that repeat nothing) are one maximal run
RunItems(v, others, from, n) ==
  IF others = {} THEN RunBytes(v, n - from)
  ELSE LET j == CHOOSE x \in others : \A y \in others : x <= y
       IN RunBytes(v, j - from - 1) \o <<PixelOp>> \o RunItems(v, others \ {j}, j, n)

\* the items expected for an image of n pixels
ExpectedItems(v, mem, n, ch) ==
  RunItems(v, {i \in 1..n : ~Repeats(v, mem, i, ch)}, 0, n)

\* the lengths of the maximal runs of an image of n pixels
RunLengths(v, mem, n, ch) ==
  LET others == {i \in 1..n : ~Repeats(v, mem, i, ch)} \cup {n + 1}
  IN {j - 1 - i : <<i, j>> \in
        {<<i, j>> \in ({0} \cup others) \X others :
            i < j /\ \A x \in others : ~(i < x /\ x < j)}} \ {0}

Solid == PixelCount >= 1 /\ \A i \in 2..PixelCount :
           ImagePixel(pixels, i, desc.channels) = ImagePixel(pixels, 1, desc.channels)

\* the number of pixels a full-run byte stands for
RunFull(v) == IF v = "R" THEN R_QOI_RUN_FULL_VAL ELSE Q_QOI_RUN_FULL_VAL

\* ceil(n / k)
Ceil(n, k) == (n + k - 1) \div k

C12_WitnessRunsOnly ==
  /\ pc = "encoded" /\ enc.ok /\ Solid
  /\ PixelCount > 2 * RunFull(variant)
  /\ Repeats(variant, pixels, 1, desc.channels)

(* The SIMD path of the R variant next to the scalar path: the caller      *)
(* encodes the image with opt.path = scalar and then with opt.path = sse   *)
(***************************************************************************)
InitSimd == Init /\ variant = "R"

\* qoi_encode(pixels, &desc, &out_len, &opt) with opt.path = sse
EncodeSimd ==
  /\ pc = "encoded"
  /\ enc.ok
  /\ opt' = [path |-> 1]
  /\ alt' = qoi_encode(variant, pixels, desc, opt')
  /\ pc' = "compared"
  /\ UNCHANGED <<variant, desc, pixels, nseg, enc, req, dec, file, fio>>

NextSimd ==
  \/ \E g \in SimdSegments : AddSeg(g.c, g.d, g.k)
  \/ \E cs \in Colorspaces, h \in Rows : Encode(cs, h)
  \/ EncodeSimd

SpecSimd == InitSimd /\ [][NextSimd]_vars

\* C3: scalar/SIMD equivalence (R): the stream written with opt.path = sse is
\* byte for byte the stream written with opt.path = scalar for the same
\* image, of 3 or of 4 channels
C3_ScalarSimdIdentical ==
  (pc = "compared" /\ alt.ok)
    => (alt.out_len = enc.out_len /\ alt.bytes = enc.bytes)

\* the two paths disagree on a 3-channel image only: with 4 channels the
\* streams are the same
C3_FourChannelsIdentical ==
  (pc = "compared" /\ alt.ok /\ desc.channels = 4)
    => (alt.out_len = enc.out_len /\ alt.bytes = enc.bytes)

\* a 4-channel image of a block that is one run and a second block has been
\* encoded on both paths
C3_Witness ==
  /\ pc = "compared" /\ alt.ok
  /\ desc.channels = 4
  /\ nseg = 2
  /\ PixelCount >= 2 * SSE_BLOCK
  /\ SubSeq(pixels, 1, 4) = SubSeq(pixels, 4 * (SSE_BLOCK - 1) + 1, 4 * SSE_BLOCK)

(***************************************************************************)
(* The mega-LUT encoders of the R variant next to the scalar encoders: the *)
(* same encoder state is handed to qoi_encode_chunk<n>_scalar and to       *)
(* qoi_encode_chunk<n>_mlut, with the table gen_mlut writes                *)
(***************************************************************************)
\* the steps of green, and of red and blue relative to green, around the
\* limits of the four opcode classes
MlutGreens == {-128, -65, -64, -33, -32, -5, -4, 0, 3, 4, 31, 32, 63, 64}
MlutOffsets == {-65, -64, -9, -8, -3, -2, 0, 1, 2, 7, 8, 63, 64}
MlutDeltas ==
  {Px(UChar(g + r), UChar(g), UChar(g + b), 0) :
     g \in MlutGreens, r \in MlutOffsets, b \in MlutOffsets}

\* the segments of the mega-LUT specification: the short runs, a ramp of
\* colour and a ramp of alpha
MlutSegments ==
  {g \in Segments("R") : g.k # LongRun /\ g.d \in {NoDelta, Px(10, 8, 5, 0), Px(0, 0, 0, 3)}}

\* pixel p (from 0) of mem as the encoders read it; before the first pixel,
\* the previous pixel of qoi_encode_init
PixelAt(mem, p, ch) ==
  IF p < 0 THEN (IF ch = 4 THEN Px(0, 0, 0, 255) ELSE Px(0, 0, 0, 0))
  ELSE IF ch = 4 THEN ENC_READ_RGBA(mem, p * 4)
  ELSE R_ENC_READ_RGB(mem, p * 3)

InitMlut == Init /\ variant = "R"

\* the caller ends the image with one pixel at the step d from the last one
AddDelta(d) ==
  /\ pc = "input"
  /\ nseg < MaxSegs
  /\ pixels' = pixels \o Ramp(AddRGB(PixelAt(pixels, desc.width - 1, desc.channels),
                                     d.r, d.g, d.b),
                              NoDelta, 1, desc.channels)
  /\ nseg' = MaxSegs
  /\ desc' = [desc EXCEPT !.width = @ + 1]
  /\ UNCHANGED <<pc, variant, opt, enc, alt, req, dec, file, fio>>

\* enc_state after qoi_encode_init is given all the pixels and handed to the
\* scalar chunk encoder and to the mega-LUT chunk encoder
EncodeMlut ==
  /\ pc = "input"
  /\ desc.width > 0
  /\ enc' = [called |-> TRUE, ok |-> TRUE,
             s |-> LET s == [qoi_encode_init(variant, desc) EXCEPT !.pixel_cnt = desc.width]
                   IN IF desc.channels = 3 THEN R_qoi_encode_chunk3_scalar(s, pixels)
                      ELSE R_qoi_encode_chunk4_scalar(s, pixels)]
  /\ alt' = [called |-> TRUE, ok |-> TRUE,
             s |-> LET s == [qoi_encode_init(variant, desc) EXCEPT !.pixel_cnt = desc.width]
                   IN IF desc.channels = 3 THEN R_qoi_encode_chunk3_mlut(s, pixels)
                      ELSE R_qoi_encode_chunk4_mlut(s, pixels)]
  /\ pc' = "mlut"
  /\ UNCHANGED <<variant, desc, opt, pixels, nseg, req, dec, file, fio>>

NextMlut ==
  \/ \E g \in MlutSegments : AddSeg(g.c, g.d, g.k)
  \/ \E d \in MlutDeltas : AddDelta(d)
  \/ EncodeMlut

SpecMlut == InitMlut /\ [][NextMlut]_vars

\* the table entry of the step from pixel p - 1 to pixel p of the image
StepEntry(p) ==
  LET px == PixelAt(pixels, p, desc.channels)
      px_prev == PixelAt(pixels, p - 1, desc.channels)
  IN gen_mlut_entry(UChar(px.r - px_prev.r), UChar(px.g - px_prev.g),
                    UChar(px.b - px_prev.b))

\* the opcode RGB_ENC_SCALAR writes for pixel p of the image
StepOpcode(p) ==
  R_RGB_ENC_SCALAR([bytes |-> <<>>, b |-> 0, px |-> PixelAt(pixels, p, desc.channels)],
                   PixelAt(pixels, p - 1, desc.channels)).bytes

\* C4: mega-LUT equivalence (R): the mega-LUT chunk encoder leaves the bytes
\* and the encoder state the scalar chunk encoder leaves, for 3 and for 4
\* channels; and for the step of every pixel of the image the table holds
\* the length of the opcode RGB_ENC_SCALAR writes followed by its bytes
C4_MlutEquivalent ==
  (pc = "mlut")
    => /\ alt.s = enc.s
       /\ \A p \in 0..(desc.width - 1) :
            /\ StepEntry(p)[1] = Len(StepOpcode(p))
            /\ SubSeq(StepEntry(p), 2, StepEntry(p)[1] + 1) = StepOpcode(p)

\* a 4-channel image that ends, after a ramp, with a pixel whose step needs
\* the three-byte opcode has been encoded by both encoders
C4_Witness ==
  /\ pc = "mlut"
  /\ desc.channels = 4
  /\ desc.width = RampLen + 1
  /\ StepEntry(desc.width - 1)[1] = 3
  /\ alt.s.b > QOI_HEADER_SIZE + 3

(***************************************************************************)
\* x fits k bits in two's complement
Fits(x, k) == (IF x < 0 THEN (-x) - 1 ELSE x) < Pow2(k - 1)

\* the shortest RGB-family opcode of the R variant whose fields hold the
\* deltas
ShortestOp(vg, vg_r, vg_b) ==
  IF Fits(vg, 3) /\ Fits(vg_r, 2) /\ Fits(vg_b, 2) THEN "LUMA232"
  ELSE IF Fits(vg, 6) /\ Fits(vg_r, 4) /\ Fits(vg_b, 4) THEN "LUMA464"
  ELSE IF Fits(vg, 7) /\ Fits(vg_r, 7) /\ Fits(vg_b, 7) THEN "LUMA777"
  ELSE "RGB"

\* the opcode of the R variant that starts with b1, by its tag and length
OpName(b1) ==
  IF b1 = R_QOI_OP_RGB THEN "RGB"
  ELSE IF b1 % 2 = 0 THEN "LUMA232"
  ELSE IF b1 % 4 = 1 THEN "LUMA464"
  ELSE IF b1 % 8 = 3 THEN "LUMA777"
  ELSE "other"

RECURSIVE ColourOps(_, _)
\* the colour opcodes of the R variant from C index p on, in stream order,
\* each as its first byte and its length; run bytes and RGBA opcodes are
\* passed over
ColourOps(ops, p) ==
  IF p >= Len(ops) THEN <<>>
  ELSE IF IsRunByte("R", ops[p + 1]) THEN ColourOps(ops, p + 1)
  ELSE IF ops[p + 1] = R_QOI_OP_RGBA THEN ColourOps(ops, p + 2)
  ELSE <<[b1 |-> ops[p + 1], len |-> OpLength("R", ops[p + 1])]>>
         \o ColourOps(ops, p + OpLength("R", ops[p + 1]))

\* the green delta of pixel p (from 0) of the image and the red and blue
\* deltas relative to it, as signed 8-bit values
StepDeltas(p) ==
  LET px == PixelAt(pixels, p, desc.channels)
      px_prev == PixelAt(pixels, p - 1, desc.channels)
      vr == SChar(px.r - px_prev.r)
      vg == SChar(px.g - px_prev.g)
      vb == SChar(px.b - px_prev.b)
  IN [vg |-> vg, vg_r |-> SChar(vr - vg), vg_b |-> SChar(vb - vg)]

\* the pixels (from 0) of the image that are not in a run
NonRunPixels ==
  {p \in 0..(desc.width - 1) : ~Repeats("R", pixels, p + 1, desc.channels)}

\* the number of bytes of the opcode of that name
OpSize(name) ==
  IF name = "LUMA232" THEN 1 ELSE IF name = "LUMA464" THEN 2
  ELSE IF name = "LUMA777" THEN 3 ELSE 4

\* C13: opcode boundary (R): for every pixel that is not in a run the scalar
\* encoder writes the shortest RGB-family opcode whose fields hold the
\* deltas: LUMA232 iff vg fits 3 bits and vg_r, vg_b fit 2 bits, else
\* LUMA464 iff vg fits 6 bits and vg_r, vg_b fit 4, else LUMA777 iff all
\* three fit 7 bits, else RGB
C13_ShortestOpcode ==
  (pc = "mlut") =>
    LET cops == ColourOps(SubSeq(enc.s.bytes, QOI_HEADER_SIZE + 1, Len(enc.s.bytes)), 0)
    IN /\ Len(cops) = Cardinality(NonRunPixels)
       /\ \A p \in NonRunPixels :
            LET op == cops[Cardinality({q \in NonRunPixels : q <= p})]
                d == StepDeltas(p)
            IN /\ OpName(op.b1) = ShortestOp(d.vg, d.vg_r, d.vg_b)
               /\ op.len = OpSize(ShortestOp(d.vg, d.vg_r, d.vg_b))

\* an image whose last pixel is at vg = 3, vg_r = 1, vg_b = 1 from the one
\* before it has been encoded, and its last opcode is the one-byte LUMA232
C13_Witness ==
  /\ pc = "mlut"
  /\ desc.width > 1
  /\ StepDeltas(desc.width - 1) = [vg |-> 3, vg_r |-> 1, vg_b |-> 1]
  /\ enc.s.bytes[Len(enc.s.bytes)] % 2 = 0
  /\ enc.s.b = Len(enc.s.bytes)

\* an image whose last pixel is at vg_r = -2 from the one before it, which
\* fits 2 bits, has been encoded
C13_WitnessNegative ==
  /\ pc = "mlut"
  /\ desc.width > 1
  /\ StepDeltas(desc.width - 1) = [vg |-> -4, vg_r |-> -2, vg_b |-> -2]

(* Headers: a caller hands qoi_decode a stream whose 14 header bytes are   *)
(* arbitrary, followed by one run opcode and the padding                   *)
(***************************************************************************)
\* the magics of the two variants and a third one
Magics == {R_QOI_MAGIC, Q_QOI_MAGIC, <<113, 111, 105, 103>>}
\* the header fields of the header specification
SmallDims == {0, 1, 2}
HeaderChannels == {2, 3, 4, 5}
HeaderColorspaces == {0, 1, 2, 3, 4}

\* a stream with the given header: the opcode of a run of one pixel, or of
\* two when the header announces more than one pixel, and the padding
Forged(v, m, w, h, ch, cs) ==
  m \o qoi_write_32(w) \o qoi_write_32(h) \o <<ch, cs>>
    \o DUMP_RUN(v, [bytes |-> <<>>, b |-> 0, run |-> IF w > 1 \/ h > 1 THEN 2 ELSE 1]).bytes
    \o qoi_padding

\* the caller prepares the stream
Forge(m, w, h, ch, cs) ==
  /\ pc = "input"
  /\ file' = Forged(variant, m, w, h, ch, cs)
  /\ desc' = [width |-> w, height |-> h, channels |-> ch, colorspace |-> cs]
  /\ pc' = "forged"
  /\ UNCHANGED <<variant, opt, pixels, nseg, enc, alt, req, dec, fio>>

\* qoi_decode(file, size, &desc, channels)
DecodeFile(channels) ==
  /\ pc = "forged"
  /\ req' = channels
  /\ dec' = qoi_decode(variant, file, Len(file), channels)
  /\ pc' = "parsed"
  /\ UNCHANGED <<variant, desc, opt, pixels, nseg, enc, alt, file, fio>>

NextHeader ==
  \/ \E m \in Magics, w \in SmallDims, h \in SmallDims,
        ch \in HeaderChannels, cs \in HeaderColorspaces : Forge(m, w, h, ch, cs)
  \/ \E channels \in Requested : DecodeFile(channels)

SpecHeader == Init /\ [][NextHeader]_vars

\* the header fields as the bytes of the stream give them
FileMagic == SubSeq(file, 1, 4)
FileWidth == file[5] * 16777216 + file[6] * 65536 + file[7] * 256 + file[8]
FileHeight == file[9] * 16777216 + file[10] * 65536 + file[11] * 256 + file[12]
FileChannels == file[13]
FileColorspace == file[14]

\* C7: header rejection: qoi_decode fails when the width is 0, the height is
\* 0, the channel count is not 3 or 4, the magic is not the variant's, or the
\* colorspace byte is above 3 (R) or above 1 (Q); a header with none of these
\* defects, of few pixels, and a valid requested channel count is accepted
C7_HeaderRejection ==
  (pc = "parsed" /\ req \in {0, 3, 4})
    => LET defect ==
             \/ FileWidth = 0
             \/ FileHeight = 0
             \/ FileChannels \notin {3, 4}
             \/ FileMagic # (IF variant = "R" THEN <<114, 111, 105, 102>>
                                              ELSE <<113, 111, 105, 102>>)
             \/ FileColorspace > (IF variant = "R" THEN 3 ELSE 1)
       IN dec.ok <=> ~defect

\* the same with the limit of the colorspace byte at 3 in both variants
C7_HeaderRejectionAsCoded ==
  (pc = "parsed" /\ req \in {0, 3, 4})
    => LET defect ==
             \/ FileWidth = 0
             \/ FileHeight = 0
             \/ FileChannels \notin {3, 4}
             \/ FileMagic # (IF variant = "R" THEN <<114, 111, 105, 102>>
                                              ELSE <<113, 111, 105, 102>>)
             \/ FileColorspace > 3
       IN dec.ok <=> ~defect

\* qoi_decode has returned pixels for a Q stream whose colorspace byte is 2
C7_Witness ==
  /\ pc = "parsed" /\ variant = "Q"
  /\ FileMagic = <<113, 111, 105, 102>>
  /\ FileColorspace = 2
  /\ dec.ok
  /\ Len(dec.pixels) > 0

(***************************************************************************)
(* Dimensions: valid headers and descriptors around the pixel limit        *)
(***************************************************************************)
\* widths and heights with products below, at and above QOI_PIXELS_MAX
Widths == {1, 3, 7, 20000, 20001}
Heights ==
  {1, 2, 19998, 19999, 20000, 57142856, 57142857, 133333332, 133333333,
   133333334, 399999999, 400000000}

\* the largest pixel count the model supplies pixel data for
MaxEncodedPixels == 4

\* qoi_encode(data, &desc, &out_len, &opt) with the descriptor of the stream
\* and pixels that are all zero; for a descriptor of more than
\* MaxEncodedPixels pixels the call is followed as far as its parameter check
EncodeDesc ==
  /\ pc = "forged"
  /\ enc' = IF qoi_encode_rejects(FALSE, desc, opt) THEN Failure
            ELSE IF desc.height <= MaxEncodedPixels \div desc.width
            THEN qoi_encode(variant,
                            [i \in 1..(desc.width * desc.height * desc.channels) |-> 0],
                            desc, opt)
            ELSE [called |-> TRUE, ok |-> TRUE]
  /\ pc' = "checked"
  /\ UNCHANGED <<variant, desc, opt, pixels, nseg, alt, req, dec, file, fio>>

NextDims ==
  \/ \E w \in Widths, h \in Heights, ch \in {3, 4}, cs \in {0, 1} :
       Forge(QOI_MAGIC(variant), w, h, ch, cs)
  \/ \E channels \in Requested : DecodeFile(channels)
  \/ EncodeDesc

SpecDims == Init /\ [][NextDims]_vars

\* the call whose result the state holds was given valid arguments apart
\* from the dimensions
DimsCall ==
  \/ pc = "checked"
  \/ pc = "parsed" /\ req \in {0, 3, 4}

\* the result of that call
DimsAccepted == IF pc = "checked" THEN enc.ok ELSE dec.ok

C8_WitnessAccepted ==
  /\ pc = "checked"
  /\ desc.width = 20000 /\ desc.height = 19999
  /\ enc.ok

(***************************************************************************)
(* qoi.h: the file-backed routines qoi_write_from_ppm and qoi_read_to_ppm  *)
(***************************************************************************)
isspace(num) == num = 32 \/ (num >= 9 /\ num <= 13)
isdigit(num) == num >= 48 /\ num <= 57

\* the reader of a PPM header: ok is FALSE once a macro has taken goto
\* BADEXIT1, pos is the position of the input file, t the byte read last and
\* var the number PAM_SPACE_NUM accumulates
PAM_READ1(f, p) ==
  IF ~p.ok \/ p.pos >= Len(f) THEN [p EXCEPT !.ok = FALSE]
  ELSE [p EXCEPT !.pos = @ + 1, !.t = f[p.pos + 1]]

PAM_EXPECT(f, p, val) ==
  LET q == PAM_READ1(f, p) IN [q EXCEPT !.ok = @ /\ q.t = val]

RECURSIVE PamSpaces(_, _)
\* do { PAM_READ1; } while(isspace(t));
PamSpaces(f, p) ==
  LET q == PAM_READ1(f, p) IN IF q.ok /\ isspace(q.t) THEN PamSpaces(f, q) ELSE q

RECURSIVE PamDigits(_, _)
\* while(isdigit(t)){ var*=10; var+=(t-'0'); PAM_READ1; } (the numbers of the
\* model's files stay far below the 32 bits of var)
PamDigits(f, p) ==
  IF p.ok /\ isdigit(p.t)
  THEN PamDigits(f, PAM_READ1(f, [p EXCEPT !.var = @ * 10 + (p.t - 48)]))
  ELSE p

\* PAM_SPACE_NUM(var), var being zero before
PAM_SPACE_NUM(f, p) ==
  IF ~p.ok \/ ~isspace(p.t) THEN [p EXCEPT !.ok = FALSE]
  ELSE LET q == PamSpaces(f, p)
       IN IF ~q.ok \/ ~isdigit(q.t) THEN [q EXCEPT !.ok = FALSE]
          ELSE PamDigits(f, [q EXCEPT !.var = 0])

RECURSIVE PAM_COMMENT(_, _)
PAM_COMMENT(f, p) ==
  IF p.ok /\ p.t # 10 THEN PAM_COMMENT(f, PAM_READ1(f, p)) ELSE p

\* the value of a file-backed routine: its return value, the bytes the output
\* file has received, and the environment the call ran in
FileReturn(ret, out, env) == [called |-> TRUE, ret |-> ret, out |-> out, env |-> env]

\* fwrite(bytes) on the output of io: the file takes io.cap bytes in all, and
\* a write that does not fit comes back short
Fwrite(io, bytes) ==
  IF ~io.ok THEN io
  ELSE IF Len(io.out) + Len(bytes) <= io.cap THEN [io EXCEPT !.out = @ \o bytes]
  ELSE [io EXCEPT !.ok = FALSE, !.out = @ \o SubSeq(bytes, 1, io.cap - Len(io.out))]

\* the end of one pass of qoi_write_from_file: the n * ch bytes read are
\* consumed and the bytes of the encoder state s are written
WriteEncoded(io, n, ch, s) ==
  After(s, Fwrite([io EXCEPT !.pos = @ + n * ch, !.s = s], s.bytes))

\* the encoder state at the start of a pass with the run counter cleared
WritePass_fresh(io, n) ==
  [io.s EXCEPT !.bytes = <<>>, !.b = 0, !.px_pos = 0, !.pixel_cnt = n, !.run = 0]

\* the encoder state at the start of a pass over n pixels
WritePass(io, n) == [io.s EXCEPT !.bytes = <<>>, !.b = 0, !.px_pos = 0, !.pixel_cnt = n]

RECURSIVE WriteChunks(_, _, _, _, _, _)
\* for(i=0;(i+CHUNK)<=totpixels;i+=CHUNK){ fread; enc_chunk_arr; fwrite }
WriteChunks(v, f, d, o, io, i) ==
  IF ~io.ok \/ i + CHUNK > d.width * d.height THEN io
  ELSE IF io.pos + CHUNK * d.channels > Len(f) THEN [io EXCEPT !.ok = FALSE]
  ELSE WriteChunks(v, f, d, o,
         WriteEncoded(io, CHUNK, d.channels,
           enc_chunk_arr(v, d, o, WritePass(io, CHUNK),
                         SubSeq(f, io.pos + 1, io.pos + CHUNK * d.channels))),
         i + CHUNK)

\* if(i<totpixels){ fread; enc_finish_arr; fwrite }
WriteRest(v, f, d, o, io, n) ==
  IF ~io.ok \/ n = 0 THEN io
  ELSE IF io.pos + n * d.channels > Len(f) THEN [io EXCEPT !.ok = FALSE]
  ELSE WriteEncoded(io, n, d.channels,
         enc_finish_arr(v, d, o, WritePass(io, n),
                        SubSeq(f, io.pos + 1, io.pos + n * d.channels)))

\* s.b=0; DUMP_RUN(s.run); the fwrite of the run, if any, and of the padding
WriteEnd(v, io) ==
  IF ~io.ok THEN io
  ELSE Fwrite(Fwrite(io, DUMP_RUN(v, [io.s EXCEPT !.bytes = <<>>, !.b = 0]).bytes),
              qoi_padding)

\* the return of a routine whose files are left as io: 0 behind the last
\* statement, 1 behind the label BADEXIT3
FileDone(io, env) == After(io, FileReturn(IF io.ok THEN 0 ELSE 1, io.out, env))

\* qoi_write_from_file(fi, qoi_f, &desc, opt), fi being f read up to pos
qoi_write_from_file(v, f, pos, d, o, env) ==
  IF ~env.out_ok THEN FileReturn(1, <<>>, env)
  ELSE IF env.mallocs < 2 THEN FileReturn(1, <<>>, env)
  ELSE FileDone(
         WriteEnd(v,
           WriteRest(v, f, d, o,
             WriteChunks(v, f, d, o,
               Fwrite([ok |-> TRUE, pos |-> pos, out |-> <<>>, cap |-> env.cap,
                       s |-> qoi_encode_init(v, d)],
                      qoi_encode_init(v, d).bytes),
               0),
             (d.width * d.height) % CHUNK)),
         env)

\* the header of qoi_write_from_ppm read: PAM_EXPECT('P'), PAM_EXPECT('6'),
\* PAM_READ1 and the three numbers width, height and maxval
PpmNumbers(f) ==
  LET w == PAM_SPACE_NUM(f, PAM_READ1(f, PAM_EXPECT(f,
             PAM_EXPECT(f, [ok |-> TRUE, pos |-> 0, t |-> 0, var |-> 0], 80), 54)))
      h == PAM_SPACE_NUM(f, w)
      m == PAM_SPACE_NUM(f, h)
  IN [width |-> w.var, height |-> h.var, maxval |-> m.var,
      p |-> IF m.ok /\ m.t = 35 THEN PAM_COMMENT(f, m) ELSE m]

\* qoi_write_from_ppm(ppm_f, qoi_f, opt), the input file holding f
qoi_write_from_ppm(v, f, o, env) ==
  IF ~env.in_ok THEN FileReturn(1, <<>>, env)
  ELSE LET n == PpmNumbers(f) IN
       IF ~n.p.ok \/ ~isspace(n.p.t) \/ n.maxval > 255 THEN FileReturn(1, <<>>, env)
       ELSE qoi_write_from_file(v, f, n.p.pos,
              [width |-> n.width, height |-> n.height, channels |-> 3, colorspace |-> 0],
              o, env)

RECURSIVE Digits(_)
\* the digits %u prints
Digits(n) == IF n < 10 THEN <<48 + n>> ELSE Digits(n \div 10) \o <<48 + (n % 10)>>

\* sprintf(head, "P6 %u %u 255\n", desc.width, desc.height)
PpmHead(w, h) ==
  <<80, 54, 32>> \o Digits(w) \o <<32>> \o Digits(h) \o <<32, 50, 53, 53, 10>>

\* the end of a pass without the memmove: the bytes not yet decoded are lost
ReadDecoded_dropping(io, k, s) ==
  After(s,
    LET w == Fwrite([io EXCEPT !.pos = @ + k], s.pixels)
    IN [w EXCEPT !.ok = @ /\ s.pixel_curr # io.s.pixel_curr,
                 !.s = [s EXCEPT !.bytes = <<>>,
                                 !.b_present = 0,
                                 !.b = 0, !.px_pos = 0, !.pixels = <<>>]])

\* the end of a pass that goes on whether or not a pixel was decoded
ReadDecoded_unchecked(io, k, s) ==
  After(s,
    LET w == Fwrite([io EXCEPT !.pos = @ + k], s.pixels)
    IN [w EXCEPT !.s = [s EXCEPT !.bytes = SubSeq(s.bytes, s.b + 1, s.b_present),
                                 !.b_present = @ - s.b,
                                 !.b = 0, !.px_pos = 0, !.pixels = <<>>]])

\* the end of one pass of the loop of qoi_read_to_file: k bytes were read and
\* the decoder has left s; the pixels are written, the bytes not yet decoded
\* move to the front, and a pass without a pixel ends the loop with an error
ReadDecoded(io, k, s) ==
  After(s,
    LET w == Fwrite([io EXCEPT !.pos = @ + k], s.pixels)
    IN [w EXCEPT !.ok = @ /\ s.pixel_curr # io.s.pixel_curr,
                 !.s = [s EXCEPT !.bytes = SubSeq(s.bytes, s.b + 1, s.b_present),
                                 !.b_present = @ - s.b,
                                 !.b = 0, !.px_pos = 0, !.pixels = <<>>]])

\* the bytes fread delivers when up to n are asked for at position pos of f
Fread(f, pos, n) == SubSeq(f, pos + 1, IF pos + n <= Len(f) THEN pos + n ELSE Len(f))

RECURSIVE ReadChunks(_, _, _, _)
\* while(s.pixel_curr!=s.pixel_cnt){ fread; dec_arr; fwrite; memmove }
ReadChunks(v, f, i, io) ==
  IF ~io.ok \/ io.s.pixel_curr = io.s.pixel_cnt THEN io
  ELSE ReadChunks(v, f, i,
         ReadDecoded(io, Len(Fread(f, io.pos, io.s.b_limit - io.s.b_present)),
           dec_arr(v, i,
             [io.s EXCEPT !.bytes = @ \o Fread(f, io.pos, io.s.b_limit - io.s.b_present),
                          !.b_present = @ + Len(Fread(f, io.pos,
                                                      io.s.b_limit - io.s.b_present))])))

\* qoi_read_to_file behind the fwrite of the head, which has left hd: the two
\* allocations and the loop
qoi_read_to_file_loop(v, f, i, hd, env) ==
  IF ~hd.ok \/ env.mallocs < 2 THEN FileReturn(1, hd.out, env)
  ELSE FileDone(ReadChunks(v, f, i, hd), env)

\* qoi_read_to_file(fi, out_f, head, head_len, &desc, channels, opt), fi being
\* f read up to pos
qoi_read_to_file(v, f, pos, head, d, channels, o, env) ==
  IF d.width = 0 \/ d.height = 0 \/ d.channels < 3 \/ d.channels > 4
       \/ d.colorspace > 3 \/ o.path > 1
  THEN FileReturn(1, <<>>, env)
  ELSE IF ~env.out_ok THEN FileReturn(1, <<>>, env)
  ELSE qoi_read_to_file_loop(v, f, DEC_ARR_INDEX(d.channels, channels),
         Fwrite([ok |-> TRUE, pos |-> pos, out |-> <<>>, cap |-> env.cap,
                 s |-> [bytes |-> <<>>, b |-> 0, px |-> Px(0, 0, 0, 255),
                        index |-> ZeroIndex,
                        b_limit |-> CHUNK * (IF d.channels = 3 THEN 2 ELSE 3),
                        b_present |-> 0, p_limit |-> CHUNK * channels,
                        px_pos |-> 0, run |-> 0,
                        pixel_cnt |-> d.width * d.height, pixel_curr |-> 0,
                        pixels |-> <<>>]],
                head),
         env)

\* file_to_desc(fi, &desc) fails
file_to_desc_fails(v, f) == Len(f) < 14 \/ SubSeq(f, 1, 4) # QOI_MAGIC(v)

\* qoi_read_to_ppm(qoi_f, ppm_f, opt), the input file holding f
qoi_read_to_ppm(v, f, o, env) ==
  IF ~env.in_ok THEN FileReturn(1, <<>>, env)
  ELSE IF file_to_desc_fails(v, f) THEN FileReturn(1, <<>>, env)
  ELSE qoi_read_to_file(v, f, 14, PpmHead(HeaderDesc(f).width, HeaderDesc(f).height),
                        HeaderDesc(f), 3, o, env)

(***************************************************************************)
(* Files: a caller stores an image as a PPM file or as an encoded file,    *)
(* intact or damaged, and converts it in an environment that may fail      *)
(***************************************************************************)
\* a capacity of the output file that no output of the model reaches
Roomy == 4096

\* an environment: the input opens, the output opens, the number of
\* allocations that succeed, the bytes the output file takes
GoodEnv == [in_ok |-> TRUE, out_ok |-> TRUE, mallocs |-> 2, cap |-> Roomy]
\* the environments: nothing fails, or one thing does; caps are the
\* capacities of an output file that is too small
Envs(caps) ==
  {GoodEnv, [GoodEnv EXCEPT !.in_ok = FALSE], [GoodEnv EXCEPT !.out_ok = FALSE]}
    \cup {[GoodEnv EXCEPT !.mallocs = n] : n \in {0, 1}}
    \cup {[GoodEnv EXCEPT !.cap = n] : n \in caps}
\* too small for the header of an encoded file, and for the header with less
\* than the shortest stream and the padding
SmallQoi == {0, 20}
\* too small for the head of a PPM file, and for the head with less than one
\* pixel
SmallPpm == {0, 12}

\* the PPM file of the image: intact, with a comment behind the header, with
\* another magic, with 16-bit samples, or a byte short
PpmDamages == {"none", "comment", "magic", "maxval", "short"}
PpmFile(dmg) ==
  <<80, IF dmg = "magic" THEN 53 ELSE 54, 32>>
    \o Digits(desc.width) \o <<32>> \o Digits(desc.height) \o <<32>>
    \o (IF dmg = "maxval" THEN <<54, 53, 53, 51, 53>> ELSE <<50, 53, 53>>)
    \o (IF dmg = "comment" THEN <<35, 99>> ELSE <<>>)
    \o <<10>>
    \o (IF dmg = "short" THEN SubSeq(pixels, 1, Len(pixels) - 1) ELSE pixels)

\* the encoded file of the image: intact, with another magic, cut inside the
\* header, or cut before its last opcode byte
QoiDamages == {"none", "magic", "header", "truncated"}
QoiFile(bytes, dmg) ==
  IF dmg = "magic" THEN <<113, 111, 105, 103>> \o SubSeq(bytes, 5, Len(bytes))
  ELSE IF dmg = "header" THEN SubSeq(bytes, 1, 13)
  ELSE IF dmg = "truncated" THEN SubSeq(bytes, 1, Len(bytes) - Len(qoi_padding) - 1)
  ELSE bytes

\* the caller stores the image as a PPM file
MakePpm(dmg) ==
  /\ pc = "input"
  /\ desc.width > 0
  /\ desc.channels = 3
  /\ file' = PpmFile(dmg)
  /\ pc' = "ppm"
  /\ UNCHANGED <<variant, desc, opt, pixels, nseg, enc, alt, req, dec, fio>>

\* qoi_write_from_ppm(ppm_f, qoi_f, &opt)
WriteFromPpm(env) ==
  /\ pc = "ppm"
  /\ fio' = qoi_write_from_ppm(variant, file, opt, env)
  /\ pc' = "written"
  /\ UNCHANGED <<variant, desc, opt, pixels, nseg, enc, alt, req, dec, file>>

\* the caller encodes the image with qoi_encode and stores the bytes
MakeQoi(dmg) ==
  /\ pc = "input"
  /\ desc.width > 0
  /\ enc' = qoi_encode(variant, pixels, desc, opt)
  /\ file' = QoiFile(enc'.bytes, dmg)
  /\ pc' = "qoi"
  /\ UNCHANGED <<variant, desc, opt, pixels, nseg, alt, req, dec, fio>>

\* qoi_read_to_ppm(qoi_f, ppm_f, &opt)
ReadToPpm(env) ==
  /\ pc = "qoi"
  /\ fio' = qoi_read_to_ppm(variant, file, opt, env)
  /\ pc' = "read"
  /\ UNCHANGED <<variant, desc, opt, pixels, nseg, enc, alt, req, dec, file>>

NextFile ==
  \/ \E g \in SimdSegments : AddSeg(g.c, g.d, g.k)
  \/ \E dmg \in PpmDamages : MakePpm(dmg)
  \/ \E env \in Envs(SmallQoi) : WriteFromPpm(env)
  \/ \E dmg \in QoiDamages : MakeQoi(dmg)
  \/ \E env \in Envs(SmallPpm) : ReadToPpm(env)

SpecFile == Init /\ [][NextFile]_vars

\* nothing stands in the way of the conversion: the environment does not
\* fail and the input file is an intact file of the image
NothingFails ==
  /\ fio.env = GoodEnv
  /\ \/ pc = "written" /\ file \in {PpmFile("none"), PpmFile("comment")}
     \/ pc = "read" /\ file = enc.bytes

\* the R, G and B bytes of the image
RgbOf(mem, ch) == [i \in 1..((Len(mem) \div ch) * 3) |-> mem[((i - 1) \div 3) * ch + ((i - 1) % 3) + 1]]

\* C10: status convention: qoi_write_from_ppm and qoi_read_to_ppm return 1
\* when the conversion succeeds and 0 when it fails (unopenable file, bad
\* header, short read or write, failed allocation, truncated stream)
C10_StatusConvention ==
  fio.called => fio.ret = (IF NothingFails THEN 1 ELSE 0)

\* what the routines do: they return 0 when the conversion succeeds, the
\* output file then being the encoded image or the PPM file of its R, G, B,
\* and 1 when it fails
C10_StatusAsCoded ==
  fio.called
    => IF NothingFails
       THEN /\ fio.ret = 0
            /\ fio.out = IF pc = "written"
                         THEN qoi_encode(variant, pixels, desc, opt).bytes
                         ELSE PpmHead(desc.width, desc.height)
                                \o RgbOf(pixels, desc.channels)
       ELSE fio.ret = 1

\* an intact PPM file of more than one chunk has been converted and the
\* routine has returned 0
C10_Witness ==
  /\ pc = "written"
  /\ NothingFails
  /\ desc.width > CHUNK
  /\ fio.ret = 0
  /\ Len(fio.out) > QOI_HEADER_SIZE + Len(qoi_padding)

\* a truncated encoded file has made qoi_read_to_ppm return 1
C10_WitnessFailure ==
  /\ pc = "read"
  /\ fio.env = GoodEnv
  /\ Len(file) = Len(enc.bytes) - Len(qoi_padding) - 1
  /\ fio.ret = 1

(***************************************************************************)
(* Truncation: an encoded file that has lost bytes at its end is handed to *)
(* the streaming decoder                                                   *)
(***************************************************************************)
\* the numbers of bytes removed from the end of the encoder's output
Cuts == {4}

\* the caller encodes the image with qoi_encode and stores the bytes without
\* the last cut of them
MakeCutQoi(cut) ==
  /\ pc = "input"
  /\ desc.width > 0
  /\ enc' = qoi_encode(variant, pixels, desc, opt)
  /\ file' = SubSeq(enc'.bytes, 1, Len(enc'.bytes) - cut)
  /\ pc' = "cut"
  /\ UNCHANGED <<variant, desc, opt, pixels, nseg, alt, req, dec, fio>>

\* qoi_read_to_ppm(qoi_f, ppm_f, &opt) on the shortened file, where nothing
\* else fails
ReadCutToPpm ==
  /\ pc = "cut"
  /\ fio' = qoi_read_to_ppm(variant, file, opt, GoodEnv)
  /\ pc' = "fed"
  /\ UNCHANGED <<variant, desc, opt, pixels, nseg, enc, alt, req, dec, file>>

NextTrunc ==
  \/ \E g \in SimdSegments : AddSeg(g.c, g.d, g.k)
  \/ \E cut \in Cuts : MakeCutQoi(cut)
  \/ ReadCutToPpm

SpecTrunc == Init /\ [][NextTrunc]_vars

\* the pixels qoi_read_to_ppm has written behind the head of the PPM file
PixelsWritten ==
  (Len(fio.out) - Len(PpmHead(desc.width, desc.height))) \div 3

RECURSIVE LastOp(_, _, _)
\* the last opcode of the stream from C index p on: its first byte, and its
\* length with the RGBA opcode in front of it
LastOp(v, ops, p) ==
  LET b1 == ops[p + 1]
      len == IF v = "R" /\ b1 = R_QOI_OP_RGBA
             THEN 2 + OpLength(v, ops[p + 3])
             ELSE OpLength(v, b1)
  IN IF p + len >= Len(ops) THEN [b1 |-> b1, len |-> len]
     ELSE LastOp(v, ops, p + len)

\* C14: streaming truncation: the streaming decoder, fed an encoder output
\* without its last 4 bytes, does not report success: it writes W*H - D
\* pixels for some D and returns the failure of a truncated stream
C14_TruncationFails ==
  (pc = "fed") =>
    /\ fio.ret = 1
    /\ PixelsWritten <= PixelCount

\* what the decoder does: it needs 6 bytes (R) or 5 bytes (Q) in front of the
\* read cursor for every pixel, so with 4 bytes of padding left it fails
\* unless the last pixel has an opcode of 3 bytes or more (R), of 2 bytes or
\* more (Q); then every pixel is written and 0 is returned
C14_TruncationAsCoded ==
  (pc = "fed") =>
    LET last == LastOp(variant, OpBytes(enc.bytes), 0)
        long == /\ ~IsRunByte(variant, last.b1)
                /\ last.len > (IF variant = "R" THEN 2 ELSE 1)
    IN IF long
       THEN /\ fio.ret = 0
            /\ PixelsWritten = PixelCount
            /\ fio.out = PpmHead(desc.width, desc.height) \o RgbOf(pixels, desc.channels)
       ELSE /\ fio.ret = 1
            /\ PixelsWritten < PixelCount

\* an encoded image of more than a chunk that ends with an opcode of three
\* bytes or more has been fed to the decoder without its last 4 bytes
C14_Witness ==
  /\ pc = "fed"
  /\ PixelCount > CHUNK
  /\ Len(file) = Len(enc.bytes) - 4
  /\ LastOp(variant, OpBytes(enc.bytes), 0).len >= 3
  /\ PixelsWritten = PixelCount

\* an encoded image that ends in a run has been fed to the decoder without its
\* last 4 bytes, and the decoder has failed
C14_WitnessFailure ==
  /\ pc = "fed"
  /\ IsRunByte(variant, LastOp(variant, OpBytes(enc.bytes), 0).b1)
  /\ fio.ret = 1

(***************************************************************************)
(* Scenarios: images of transparent black pixels and of grey gradients are *)
(* encoded and decoded                                                     *)
(***************************************************************************)
\* runs of (0,0,0,0) of one pixel, of a SIMD block and of one pixel less, and
\* the gradient (i,i,i) from 0 on, whole or without its last pixel
ScenarioSegments ==
  {[c |-> Px(0, 0, 0, 0), d |-> NoDelta, k |-> k] : k \in {1, SSE_BLOCK - 1, SSE_BLOCK}}
    \cup {[c |-> Px(0, 0, 0, 0), d |-> Px(1, 1, 1, 0), k |-> k] :
            k \in {31, 32}}

NextScenario ==
  \/ \E g \in ScenarioSegments : AddSeg(g.c, g.d, g.k)
  \/ \E cs \in Colorspaces, h \in Rows : Encode(cs, h)
  \/ \E channels \in Requested : Decode(channels)

SpecScenario == Init /\ [][NextScenario]_vars

\* the image is the one row of sixteen (0,0,0,0) pixels, 4 channels, handed
\* to the R encoder with a valid colorspace
SixteenZeros ==
  /\ variant = "R" /\ pc \in {"encoded", "decoded"}
  /\ desc.channels = 4 /\ desc.width = 16 /\ desc.height = 1
  /\ desc.colorspace <= 1
  /\ pixels = [i \in 1..64 |-> 0]

\* C15: scenario (R, 4 channels): sixteen (0,0,0,0) pixels in one row encode
\* to exactly 26 bytes: the header, FF 00 (RGBA opcode with alpha 0), A8
\* (LUMA232 of zero delta), 77 (RUN with payload 14 for the 15 pixels left),
\* the terminator
C15_SixteenZeros ==
  SixteenZeros =>
    /\ enc.ok
    /\ enc.out_len = 26
    /\ enc.bytes = <<114, 111, 105, 102, 0, 0, 0, 16, 0, 0, 0, 1, 4, desc.colorspace>>
                     \o <<255, 0, 168, 119>>
                     \o <<0, 0, 0, 0, 0, 0, 0, 1>>

\* the sixteen (0,0,0,0) pixels have been encoded
C15_Witness ==
  /\ SixteenZeros
  /\ pc = "encoded"
  /\ nseg = 1

\* the image is the one row of the 32 pixels (i,i,i), i = 0..31, 3 channels,
\* handed to the R encoder with a valid colorspace
Gradient ==
  /\ variant = "R" /\ pc \in {"encoded", "decoded"}
  /\ desc.channels = 3 /\ desc.width = 32 /\ desc.height = 1
  /\ desc.colorspace <= 1
  /\ pixels = [i \in 1..96 |-> (i - 1) \div 3]

Paths(v) == IF v = "R" THEN {0, 1} ELSE {0}

\* qoi_encode(pixels, &desc, &out_len, &opt) with opt.path = path
EncodeOneShot(path) ==
  /\ pc = "input"
  /\ desc.width > 0
  /\ opt' = [path |-> path]
  /\ enc' = qoi_encode(variant, pixels, desc, opt')
  /\ pc' = "oneshot"
  /\ UNCHANGED <<variant, desc, pixels, nseg, alt, req, dec, file, fio>>

\* qoi_write_from_file(fi, qoi_f, &desc, &opt), fi holding the pixels
EncodeStreaming ==
  /\ pc = "oneshot"
  /\ file' = pixels
  /\ fio' = qoi_write_from_file(variant, file', 0, desc, opt, GoodEnv)
  /\ pc' = "streamed"
  /\ UNCHANGED <<variant, desc, opt, pixels, nseg, enc, alt, req, dec>>

NextStream ==
  \/ \E g \in SimdSegments : AddSeg(g.c, g.d, g.k)
  \/ \E path \in Paths(variant) : EncodeOneShot(path)
  \/ EncodeStreaming

SpecStream == Init /\ [][NextStream]_vars

\* C17: streaming encode equals one-shot encode: for every image, of fewer
\* pixels than a chunk, of exactly a chunk or of several chunks, the bytes
\* the chunked encoder writes (header, one buffer per whole chunk, the
\* finisher's buffer, the final run, the terminator) are, put together, the
\* bytes qoi_encode returns
C17_StreamingEqualsOneShot ==
  (pc = "streamed") =>
    /\ enc.ok
    /\ fio.ret = 0
    /\ fio.out = enc.bytes
    /\ Len(fio.out) = enc.out_len

\* an image of two whole chunks and more, with a run across the boundary of
\* the first chunk, has been encoded both ways
C17_Witness ==
  /\ pc = "streamed"
  /\ PixelCount > 2 * CHUNK
  /\ Repeats(variant, pixels, CHUNK + 1, desc.channels)
  /\ Repeats(variant, pixels, CHUNK, desc.channels)
  /\ fio.ret = 0

\* images of fewer pixels than a chunk and of exactly one chunk have been
\* encoded both ways
C17_WitnessSmall ==
  /\ pc = "streamed"
  /\ PixelCount < CHUNK
  /\ opt.path = 1

(***************************************************************************)
(* The output buffer of the chunked encoder: qoi_write_from_file taken one *)
(* pass of its loop at a time, the write cursor s.b of each call of a      *)
(* chunk encoder held next to the CHUNK*QOI_PIXEL_WORST_CASE bytes of      *)
(* s.bytes                                                                 *)
(***************************************************************************)
\* the segments of the buffer specification: runs of one pixel and of a whole
\* chunk, and chunks whose pixels each take the longest opcode of a variant
BufferSegments ==
  {[c |-> c, d |-> NoDelta, k |-> k] : c \in Colours, k \in {1, CHUNK}}
    \cup {[c |-> c, d |-> d, k |-> CHUNK] :
            c \in Colours, d \in {Px(60, 40, 20, 0), Px(128, 0, 0, 3)}}

\* fo=qoi_fopen; the two QOI_MALLOCs; qoi_encode_init and the fwrite of the
\* header; carried is the run counter a call of an encoder was entered
\* with, calls the number of such calls
StreamOpen(path) ==
  /\ pc = "input"
  /\ desc.width > 0
  /\ opt' = [path |-> path]
  /\ file' = pixels
  /\ fio' = Fwrite([called |-> TRUE, ok |-> TRUE, pos |-> 0, out |-> <<>>,
                    cap |-> GoodEnv.cap, s |-> qoi_encode_init(variant, desc),
                    carried |-> 0, calls |-> 0],
                   qoi_encode_init(variant, desc).bytes)
  /\ pc' = "chunks"
  /\ UNCHANGED <<variant, desc, pixels, nseg, enc, alt, req, dec>>

\* one pass of for(i=0;(i+CHUNK)<=totpixels;i+=CHUNK): fread, s.b=0,
\* s.px_pos=0, enc_chunk_arr, fwrite
StreamChunk ==
  /\ pc = "chunks"
  /\ fio.ok
  /\ fio.pos + CHUNK * desc.channels <= Len(file)
  /\ fio' = [WriteEncoded(fio, CHUNK, desc.channels,
               enc_chunk_arr(variant, desc, opt, WritePass(fio, CHUNK),
                 SubSeq(file, fio.pos + 1, fio.pos + CHUNK * desc.channels)))
             EXCEPT !.carried = fio.s.run, !.calls = @ + 1]
  /\ UNCHANGED <<pc, variant, desc, opt, pixels, nseg, enc, alt, req, dec, file>>

\* if(i<totpixels){ fread; s.b=0; s.px_pos=0; enc_finish_arr; fwrite }
StreamFinish ==
  /\ pc = "chunks"
  /\ fio.ok
  /\ fio.pos + CHUNK * desc.channels > Len(file)
  /\ fio' = [WriteRest(variant, file, desc, opt, fio, (desc.width * desc.height) % CHUNK)
             EXCEPT !.carried = IF (desc.width * desc.height) % CHUNK = 0 THEN @ ELSE fio.s.run,
                    !.calls = @ + (IF (desc.width * desc.height) % CHUNK = 0 THEN 0 ELSE 1)]
  /\ pc' = "finished"
  /\ UNCHANGED <<variant, desc, opt, pixels, nseg, enc, alt, req, dec, file>>

\* s.b=0; DUMP_RUN(s.run); the fwrites of the run and of the padding; return
StreamClose ==
  /\ pc = "finished"
  /\ fio' = FileDone(WriteEnd(variant, fio), GoodEnv)
  /\ pc' = "streamed"
  /\ UNCHANGED <<variant, desc, opt, pixels, nseg, enc, alt, req, dec, file>>

NextBuffer ==
  \/ \E g \in BufferSegments : AddSeg(g.c, g.d, g.k)
  \/ \E path \in Paths(variant) : EncodeOneShot(path)
  \/ \E path \in Paths(variant) : StreamOpen(path)
  \/ StreamChunk
  \/ StreamFinish
  \/ StreamClose

SpecBuffer == Init /\ [][NextBuffer]_vars

\* the bytes malloc'ed for s.bytes by qoi_write_from_file
StreamCapacity == CHUNK * QOI_PIXEL_WORST_CASE(variant, desc.channels)

\* a call of a chunk encoder or of a finisher has just returned
CallReturned == pc \in {"chunks", "finished"} /\ fio.calls > 0

\* C18: output buffer bound: in streaming encode every call of a chunk
\* encoder or finisher, entered with the cursor at 0 and whatever run the
\* earlier chunks left, returns with the cursor at no more than
\* CHUNK * worst_case (4 for 3 channels, 6 for R and 5 for Q with 4), and
\* in one-shot encode the final length is at most
\* width * height * worst_case + 14 + 8
C18_BufferBound ==
  /\ CallReturned => fio.s.b <= StreamCapacity
  /\ (pc = "oneshot" /\ enc.ok) =>
       enc.out_len <= desc.width * desc.height
                        * QOI_PIXEL_WORST_CASE(variant, desc.channels)
                      + QOI_HEADER_SIZE + Len(qoi_padding)

\* what the code keeps to: a call returns with the cursor within the
\* capacity plus the bytes of the run it was entered with, within the
\* capacity when it was entered with no run, and the one-shot length is
\* within its allocation
C18_BoundAsCoded ==
  /\ CallReturned => /\ fio.s.b = Len(fio.s.bytes)
                     /\ fio.s.b <= StreamCapacity + Ceil(fio.carried, RunFull(variant))
  /\ (pc = "oneshot" /\ enc.ok) => enc.out_len <= enc.max_size

\* a chunk encoder entered with a run has returned with the cursor beyond
\* the capacity of s.bytes
C18_Witness ==
  /\ CallReturned
  /\ fio.carried > 0
  /\ fio.s.b > StreamCapacity

\* the scalar encoders overrun by the one byte of the carried run
C18_WitnessScalar ==
  /\ C18_Witness
  /\ opt.path = 0
  /\ fio.s.b = StreamCapacity + 1

\* the one-shot encoder has encoded two chunks of which the second takes the
\* longest opcodes
C18_WitnessOneShot ==
  /\ pc = "oneshot"
  /\ enc.ok
  /\ PixelCount = 2 * CHUNK
  /\ enc.out_len > QOI_HEADER_SIZE + StreamCapacity

(***************************************************************************)
(* The encoders taken one trip of their loop at a time: qoi_encode with    *)
(* the scalar or the SIMD encoder of enc_arr, or the chunk encoder of the  *)
(* mega-LUT in its place, the run counter and the bytes written held after *)
(* every pixel (scalar, mega-LUT) or every block of 16 pixels (SIMD)       *)
(***************************************************************************)
\* the encoders of a variant: roi.c has all three, qoi.c the scalar ones
StepModes(v) == IF v = "R" THEN {"scalar", "sse", "mlut"} ELSE {"scalar"}

\* the segments of the stepped specification: runs within a block, across
\* blocks and of more than a full-run opcode, and ramps of a few pixels and
\* of a block, one of them of the alpha alone
StepSegments ==
  {[c |-> c, d |-> NoDelta, k |-> k] :
     c \in Colours, k \in {1, SSE_BLOCK, SSE_BLOCK + 1, R_QOI_RUN_FULL_VAL + 2}}
    \cup {[c |-> c, d |-> d, k |-> k] :
            c \in Colours, k \in {RampLen, SSE_BLOCK},
            d \in {Px(1, 1, 0, 0), Px(60, 40, 20, 0), Px(0, 0, 0, 3)}}

\* the pixels of the whole chunks of the image, which qoi_encode hands to
\* enc_chunk_arr; the others go to enc_finish_arr
WholeChunks == PixelCount - (PixelCount % CHUNK)

\* qoi_encode up to qoi_encode_init: the header is written, nothing is read
StepStart(mode) ==
  /\ pc = "input"
  /\ desc.width > 0
  /\ opt' = [path |-> IF mode = "sse" THEN 1 ELSE 0]
  /\ enc' = [called |-> TRUE, ok |-> FALSE, mode |-> mode,
             s |-> qoi_encode_init(variant, desc)]
  /\ pc' = "steps"
  /\ UNCHANGED <<variant, desc, pixels, nseg, alt, req, dec, file, fio>>

\* one trip of the loop of the encoder in use from s on.  The SIMD encoders
\* take a block of SSE_BLOCK pixels of the whole chunks a trip: the trip is
\* the encoder's call on these pixels alone, the register that holds the last
\* pixel loaded being s.px of that call.  The other encoders, and the scalar
\* finisher behind the SIMD encoder, take a pixel a trip.
StepTrip(v, mode, s, mem, ch, whole, n) ==
  LET cnt == IF s.px_pos < whole * ch THEN whole ELSE n
      s0 == [s EXCEPT !.pixel_cnt = cnt]
      px_end == (cnt - 1) * ch
  IN IF mode = "sse" /\ cnt = whole
     THEN R_enc_arr(R_ENC_ARR_INDEX(1, ch),
                    [s EXCEPT !.pixel_cnt = (s.px_pos \div ch) + SSE_BLOCK], mem)
     ELSE IF mode = "mlut" THEN R_mlut_pixel(s0, mem, px_end, ch)
     ELSE IF v = "R" THEN R_scalar_pixel(s0, mem, px_end, ch)
     ELSE Q_scalar_pixel(s0, mem, px_end, ch)

StepPass ==
  /\ pc = "steps"
  /\ enc.s.px_pos < PixelCount * desc.channels
  /\ enc' = [enc EXCEPT !.s = StepTrip(variant, enc.mode, enc.s, pixels,
                                       desc.channels, WholeChunks, PixelCount)]
  /\ UNCHANGED <<pc, variant, desc, opt, pixels, nseg, alt, req, dec, file, fio>>

\* DUMP_RUN(s.run); the padding; return
StepEnd ==
  /\ pc = "steps"
  /\ enc.s.px_pos >= PixelCount * desc.channels
  /\ enc' = [enc EXCEPT !.s = Emit(DUMP_RUN(variant, enc.s), qoi_padding), !.ok = TRUE]
  /\ pc' = "stepped"
  /\ UNCHANGED <<variant, desc, opt, pixels, nseg, alt, req, dec, file, fio>>

NextSteps ==
  \/ \E g \in StepSegments : AddSeg(g.c, g.d, g.k)
  \/ \E mode \in StepModes(variant) : StepStart(mode)
  \/ StepPass
  \/ StepEnd

SpecSteps == Init /\ [][NextSteps]_vars

\* the trips put together are qoi_encode: the bytes at the end are the bytes
\* qoi_encode returns for the path of the mode
StepsAreEncode ==
  (pc = "stepped" /\ enc.mode # "mlut") =>
    enc.s.bytes = qoi_encode(variant, pixels, desc, opt).bytes

\* the pixels a run byte stands for
RunLength(v, b1) == IF v = "R" THEN Shr(b1, 3) + 1 ELSE BitAnd(b1, 63) + 1

\* the pixels a sequence of items stands for
ItemPixels(v, items) ==
  Len(items)
    + Cardinality({<<i, k>> \in (1..Len(items)) \X (1..Q_QOI_RUN_FULL_VAL) :
                     items[i] # PixelOp /\ k < RunLength(v, items[i])})

\* the decoder of the stream's channel count after it has read cnt pixels from
\* the opcodes ops
DecoderAfter(v, ops, cnt, ch) ==
  dec_arr(v, DEC_ARR_INDEX(ch, ch),
          [bytes |-> ops \o qoi_padding, b |-> 0, px |-> Px(0, 0, 0, 255),
           index |-> ZeroIndex, b_limit |-> Len(ops) + Len(qoi_padding),
           b_present |-> Len(ops) + Len(qoi_padding),
           p_limit |-> cnt * ch, px_pos |-> 0, run |-> 0,
           pixel_cnt |-> cnt, pixel_curr |-> 0, pixels |-> <<>>])

\* the pixels it has written
DecodedPixels(v, ops, cnt, ch) == DecoderAfter(v, ops, cnt, ch).pixels

\* the items a trip from s to t has added to the stream
TripItems(v, s, t) == OpItems(v, SubSeq(t.bytes, Len(s.bytes) + 1, Len(t.bytes)), 0)

\* the items in front of the first opcode of a pixel
BeforeFirstOp(items) ==
  SubSeq(items, 1, (CHOOSE i \in 1..Len(items) :
                      items[i] = PixelOp /\ \A j \in 1..(i - 1) : items[j] # PixelOp) - 1)

\* a trip from s to t over m pixels that emits the opcode of a pixel has
\* written the pending run in front of it
TripFlushes(v, s, t, m) ==
  LET items == TripItems(v, s, t) IN
  /\ SubSeq(t.bytes, 1, Len(s.bytes)) = s.bytes
  /\ ItemPixels(v, items) + t.run = s.run + m
  /\ (\E i \in 1..Len(items) : items[i] = PixelOp) =>
       /\ ItemPixels(v, BeforeFirstOp(items)) >= s.run
       /\ t.run < m
       /\ (m = 1) => /\ t.run = 0
                     /\ items = OpItems(v, RunBytes(v, s.run), 0) \o <<PixelOp>>

\* the stream of t holds, in order, every pixel read but the t.run pixels of
\* the pending run
StreamInOrder(v, t, mem, ch) ==
  DecodedPixels(v, SubSeq(t.bytes, QOI_HEADER_SIZE + 1, Len(t.bytes)),
                (t.px_pos \div ch) - t.run, ch)
    = SubSeq(mem, 1, ((t.px_pos \div ch) - t.run) * ch)

\* what C19 asks of a step of the encoder
RunFlushed ==
  /\ (pc = "steps" /\ pc' = "steps") =>
       /\ TripFlushes(variant, enc.s, enc'.s,
                      (enc'.s.px_pos - enc.s.px_pos) \div desc.channels)
       /\ StreamInOrder(variant, enc'.s, pixels, desc.channels)
  /\ (pc = "steps" /\ pc' = "stepped") =>
       /\ enc'.s.bytes = enc.s.bytes \o RunBytes(variant, enc.s.run) \o qoi_padding
       /\ enc'.s.run = 0

\* C19: run flush ordering: whenever an encoder (scalar, SIMD quick, SIMD
\* careful, the scalar fallback of the RGBA SIMD loop, mega-LUT) emits the
\* opcode of a pixel, the pixels of the pending run are already written as
\* run bytes in front of it and the run counter is 0 at that moment, so that
\* the stream holds the pixels in their order; and at the end the remaining
\* run is written in front of the terminator, the run counter being 0 when
\* the terminator is appended
C19_RunFlushOrdering == [][RunFlushed]_vars

\* a SIMD trip entered with a pending run has emitted opcodes and left with a
\* run counted behind the last of them
C19_Witness ==
  /\ pc = "steps"
  /\ enc.mode = "sse"
  /\ enc.s.px_pos = 2 * SSE_BLOCK * desc.channels
  /\ enc.s.run > 0
  /\ Len(enc.s.bytes) > QOI_HEADER_SIZE
  /\ IsRunByte(variant, enc.s.bytes[QOI_HEADER_SIZE + 1])
  /\ \E i \in 1..Len(TripItems(variant, qoi_encode_init(variant, desc), enc.s)) :
       TripItems(variant, qoi_encode_init(variant, desc), enc.s)[i] = PixelOp

\* an encoding has ended with a run written in front of the terminator
C19_WitnessEnd ==
  /\ pc = "stepped"
  /\ enc.mode = "mlut"
  /\ IsRunByte(variant, enc.s.bytes[Len(enc.s.bytes) - Len(qoi_padding)])

(***************************************************************************)
(* The running index of qoi.c: the Q encoder taken a pixel at a time, the  *)
(* decoder run on the bytes written so far                                 *)
(***************************************************************************)
\* the colours of the index specification: those of the codec and the pixel
\* the tables are filled with at the start
IndexColours == Colours \cup {Px(0, 0, 0, 0)}

\* the segments of the index specification: single pixels and short runs, and
\* ramps whose colours fall into different slots (1,1,0), into one slot
\* (128,0,0: 3 * 128 is a multiple of 64) and differ in alpha alone
IndexSegments ==
  {[c |-> c, d |-> NoDelta, k |-> k] : c \in IndexColours, k \in {1, RampLen}}
    \cup {[c |-> c, d |-> d, k |-> RampLen] :
            c \in IndexColours,
            d \in {Px(1, 1, 0, 0), Px(128, 0, 0, 0), Px(0, 0, 0, 3)}}

InitIndex == Init /\ variant = "Q"

NextIndex ==
  \/ \E g \in IndexSegments : AddSeg(g.c, g.d, g.k)
  \/ StepStart("scalar")
  \/ StepPass
  \/ StepEnd

SpecIndex == InitIndex /\ [][NextIndex]_vars

\* the opcodes written so far
StepOps == SubSeq(enc.s.bytes, QOI_HEADER_SIZE + 1, Len(enc.s.bytes))

\* the last opcode written is an INDEX opcode
IndexWritten ==
  /\ pc = "steps"
  /\ StepOps # <<>>
  /\ BitAnd(LastOp(variant, StepOps, 0).b1, Q_QOI_MASK_2) = Q_QOI_OP_INDEX

\* the decoder in front of the last opcode written: it has read the pixels
\* before the one that opcode encodes
DecoderBeforeLastOp ==
  DecoderAfter(variant, SubSeq(StepOps, 1, Len(StepOps) - 1),
               (enc.s.px_pos \div desc.channels) - enc.s.run - 1, desc.channels)

\* the pixel the last opcode encodes, as the encoder holds it: a pixel of 3
\* channels has the alpha 255
EncodedPixel ==
  LET p == ImagePixel(pixels, (enc.s.px_pos \div desc.channels) - enc.s.run, desc.channels)
  IN Px(p[1], p[2], p[3], IF desc.channels = 4 THEN p[4] ELSE 255)

\* C20: Q index coherence: in every stream of the Q encoder, at each
\* INDEX(slot) opcode the decoder's index[slot] holds exactly the pixel the
\* encoder encoded there, though both tables start all zero and are updated
\* by different code
C20_IndexCoherent ==
  IndexWritten =>
    /\ enc.s.px = EncodedPixel
    /\ DecoderBeforeLastOp.index[LastOp(variant, StepOps, 0).b1] = EncodedPixel
    /\ DecoderBeforeLastOp.pixel_curr = (enc.s.px_pos \div desc.channels) - enc.s.run - 1
    /\ DecoderBeforeLastOp.b = Len(StepOps) - 1

\* an INDEX opcode has been written for a pixel both tables were given
\* earlier, other pixels having been written since
C20_Witness ==
  /\ IndexWritten
  /\ EncodedPixel # Px(0, 0, 0, 0)
  /\ enc.s.run = 0
  /\ enc.s.px_pos \div desc.channels > RampLen

\* an INDEX opcode has been written while the two tables differ: the decoder
\* has stored the pixel of the leading run, the encoder has not
C20_WitnessDiffer ==
  /\ IndexWritten
  /\ DecoderBeforeLastOp.index # enc.s.index

\* an INDEX opcode has been written for the pixel (0,0,0,0), which neither
\* table was given
C20_WitnessZero ==
  /\ IndexWritten
  /\ EncodedPixel = Px(0, 0, 0, 0)
  /\ (enc.s.px_pos \div desc.channels) - enc.s.run = 1

\* a colour has come back after another colour of its slot, and no INDEX
\* opcode was written for it
C20_WitnessCollision ==
  /\ pc = "steps"
  /\ enc.s.px_pos = 3 * desc.channels
  /\ enc.s.run = 0
  /\ ImagePixel(pixels, 3, desc.channels) = ImagePixel(pixels, 1, desc.channels)
  /\ ~IndexWritten

(***************************************************************************)
(* The decoders taken one pass of their while loop at a time, on the bytes *)
(* the stepped encoder has written                                         *)
(***************************************************************************)
\* the margin of the loop condition: (s.b+6) in roi.c, (s.b+5) in qoi.c
DecMargin(v) == IF v = "R" THEN 6 ELSE 5

\* one pass of the while loop of a decoder of the variant
dec_pixel(v, s, in, out) ==
  IF v = "R" THEN R_dec_pixel(s, in, out) ELSE Q_dec_pixel(s, in, out)

\* qoi_decode on the stepped encoder's bytes up to the call of dec_arr
DecStart ==
  /\ pc = "stepped"
  /\ dec' = [called |-> TRUE, ok |-> FALSE,
             s |-> [bytes |-> enc.s.bytes, b |-> QOI_HEADER_SIZE,
                    px |-> Px(0, 0, 0, 255), index |-> ZeroIndex,
                    b_limit |-> Len(enc.s.bytes), b_present |-> Len(enc.s.bytes),
                    p_limit |-> PixelCount * desc.channels, px_pos |-> 0, run |-> 0,
                    pixel_cnt |-> PixelCount, pixel_curr |-> 0, pixels |-> <<>>]]
  /\ pc' = "decoding"
  /\ UNCHANGED <<variant, desc, opt, pixels, nseg, enc, alt, req, file, fio>>

\* one pass of the while loop of dec_in<n>out<n>
DecPass ==
  /\ pc = "decoding"
  /\ DecGuard(dec.s, desc.channels, DecMargin(variant))
  /\ dec' = [dec EXCEPT !.s = dec_pixel(variant, dec.s, desc.channels, desc.channels)]
  /\ UNCHANGED <<pc, variant, desc, opt, pixels, nseg, enc, alt, req, file, fio>>

\* the loop condition fails and the decoder returns
DecEnd ==
  /\ pc = "decoding"
  /\ ~DecGuard(dec.s, desc.channels, DecMargin(variant))
  /\ dec' = [dec EXCEPT !.ok = TRUE]
  /\ pc' = "decoded"
  /\ UNCHANGED <<variant, desc, opt, pixels, nseg, enc, alt, req, file, fio>>

NextPolicy ==
  \/ \E g \in IndexSegments : AddSeg(g.c, g.d, g.k)
  \/ StepStart("scalar")
  \/ StepPass
  \/ StepEnd
  \/ DecStart
  \/ DecPass
  \/ DecEnd

SpecPolicy == InitIndex /\ [][NextPolicy]_vars

\* the stepped decoder ends with the pixels of the image
StepsDecode == (pc = "decoded") => dec.s.pixels = pixels

\* b1 is the first byte of the opcode of a pixel that is neither in a run nor
\* taken from the index
IsColourOp(v, b1) ==
  ~IsRunByte(v, b1) /\ (v = "Q" => BitAnd(b1, Q_QOI_MASK_2) # Q_QOI_OP_INDEX)

\* the trip of the encoder from s to t has written such an opcode
TripWroteColourOp(v, s, t) ==
  /\ Len(t.bytes) > Len(s.bytes)
  /\ IsColourOp(v, LastOp(v, SubSeq(t.bytes, Len(s.bytes) + 1, Len(t.bytes)), 0).b1)

\* the pass of the decoder from s has read such an opcode
PassReadColourOp(v, s) == s.run = 0 /\ IsColourOp(v, ByteAt(s, s.b))

\* the pass of the decoder from s has read a RUN or full-run opcode
PassReadRunOp(v, s) == s.run = 0 /\ IsRunByte(v, ByteAt(s, s.b))

\* a step of the encoder or of the decoder that changes an index table goes
\* through an opcode that is neither RUN nor INDEX
IndexPolicy ==
  /\ (pc = "steps" /\ pc' = "steps" /\ enc'.s.index # enc.s.index) =>
       TripWroteColourOp(variant, enc.s, enc'.s)
  /\ (pc = "decoding" /\ pc' = "decoding" /\ dec'.s.index # dec.s.index) =>
       PassReadColourOp(variant, dec.s)

\* C21 as stated: Q index update policy: the index table is written only when
\* a pixel is emitted or decoded through a non-RUN, non-INDEX opcode; a RUN,
\* full-run or INDEX opcode leaves all 64 slots of the encoder's and of the
\* decoder's table unchanged
C21_IndexPolicy == [][IndexPolicy]_vars

\* the slot of the initial previous pixel (0,0,0,255)
InitialSlot == QOI_COLOR_HASH(Px(0, 0, 0, 255)) % 64

\* the encoder keeps to the policy; the decoder stores the current pixel
\* behind every opcode it reads, which changes a slot for an opcode that is
\* neither RUN nor INDEX, and for the RUN opcode that starts the stream: the
\* slot of the initial previous pixel then takes that pixel
IndexPolicyAsCoded ==
  /\ (pc = "steps" /\ pc' = "steps" /\ enc'.s.index # enc.s.index) =>
       TripWroteColourOp(variant, enc.s, enc'.s)
  /\ (pc = "decoding" /\ pc' = "decoding" /\ dec'.s.index # dec.s.index) =>
       \/ PassReadColourOp(variant, dec.s)
       \/ /\ PassReadRunOp(variant, dec.s)
          /\ dec.s.b = QOI_HEADER_SIZE
          /\ dec.s.index = ZeroIndex
          /\ dec'.s.index = [ZeroIndex EXCEPT ![InitialSlot] = Px(0, 0, 0, 255)]
  /\ (pc = "decoding" /\ pc' = "decoding" /\ dec.s.run = 0
        /\ BitAnd(ByteAt(dec.s, dec.s.b), Q_QOI_MASK_2) = Q_QOI_OP_INDEX) =>
       dec'.s.index = dec.s.index

\* C21 as the code has it
C21_IndexPolicyAsCoded == [][IndexPolicyAsCoded]_vars

\* the decoder has read the RUN opcode a stream starts with, and its table
\* is no longer the one it started with
C21_Witness ==
  /\ pc = "decoding"
  /\ dec.s.b = QOI_HEADER_SIZE + 1
  /\ IsRunByte(variant, dec.s.bytes[QOI_HEADER_SIZE + 1])
  /\ dec.s.index # ZeroIndex

\* the decoder has read an INDEX opcode and a RUN opcode behind it
C21_WitnessIndex ==
  /\ pc = "decoding"
  /\ dec.s.b > QOI_HEADER_SIZE + 2
  /\ dec.s.run > 0
  /\ BitAnd(dec.s.bytes[dec.s.b - 1], Q_QOI_MASK_2) = Q_QOI_OP_INDEX

RECURSIVE RgbaSites(_, _, _)
\* the RGBA opcodes of the R opcodes ops from C index p on, i pixels being
\* written before p: where each one starts and the pixel it belongs to
RgbaSites(ops, p, i) ==
  IF p >= Len(ops) THEN {}
  ELSE IF IsRunByte("R", ops[p + 1])
  THEN RgbaSites(ops, p + 1, i + RunLength("R", ops[p + 1]))
  ELSE IF ops[p + 1] = R_QOI_OP_RGBA
  THEN {[at |-> p, pixel |-> i + 1]} \cup RgbaSites(ops, p + 2, i)
  ELSE RgbaSites(ops, p + OpLength("R", ops[p + 1]), i + 1)

\* the alpha of pixel i of the image, the pixel before the first one being
\* the initial previous pixel
AlphaOf(mem, i, ch) ==
  IF i = 0 \/ ch = 3 THEN 255 ELSE ImagePixel(mem, i, ch)[4]

\* C22: RGBA-follows-RGB (R): in every stream of the R encoder, each RGBA
\* opcode (FF, alpha) is written only for a pixel whose alpha differs from
\* the previous pixel's, and is followed at once by one opcode of the RGB
\* family (LUMA232, LUMA464, LUMA777 or RGB) for the same pixel, never by a
\* RUN byte, another RGBA opcode or the terminator
C22_RgbaFollowedByRgb ==
  (pc = "stepped" /\ variant = "R") =>
    \A site \in RgbaSites(OpBytes(enc.s.bytes), 0, 0) :
      /\ desc.channels = 4
      /\ site.pixel <= PixelCount
      /\ AlphaOf(pixels, site.pixel, 4) # AlphaOf(pixels, site.pixel - 1, 4)
      /\ OpBytes(enc.s.bytes)[site.at + 2] = AlphaOf(pixels, site.pixel, 4)
      /\ site.at + 2 < Len(OpBytes(enc.s.bytes))
      /\ ~IsRunByte("R", OpBytes(enc.s.bytes)[site.at + 3])
      /\ OpBytes(enc.s.bytes)[site.at + 3] # R_QOI_OP_RGBA
      /\ site.at + 2 + OpLength("R", OpBytes(enc.s.bytes)[site.at + 3])
           <= Len(OpBytes(enc.s.bytes))

\* the SIMD encoder has written an RGBA opcode for a pixel that differs from
\* the one before in alpha alone, and one for a pixel behind a run
C22_Witness ==
  /\ pc = "stepped" /\ variant = "R"
  /\ enc.mode = "sse"
  /\ PixelCount >= SSE_BLOCK
  /\ \E site \in RgbaSites(OpBytes(enc.s.bytes), 0, 0) :
       /\ site.pixel > 1
       /\ SubSeq(ImagePixel(pixels, site.pixel, 4), 1, 3)
            = SubSeq(ImagePixel(pixels, site.pixel - 1, 4), 1, 3)
  /\ \E site \in RgbaSites(OpBytes(enc.s.bytes), 0, 0) :
       site.at > 0 /\ IsRunByte("R", OpBytes(enc.s.bytes)[site.at])

(***************************************************************************)
(* Streaming decode next to one-shot decode: the caller encodes the image, *)
(* decodes the bytes with qoi_decode and, from a file of the same bytes,   *)
(* with qoi_read_to_file                                                   *)
(***************************************************************************)
\* the segments of the reading specification: those of the SIMD and of the
\* buffer specification, whose streams are longer than the input buffer and
\* whose images are larger than the output buffer of qoi_read_to_file
ReadSegments == SimdSegments \cup BufferSegments

\* qoi_encode, the bytes stored as a file, and qoi_decode on them with the
\* channel count a caller of qoi_read_to_file asks for: 3 (qoi_read_to_ppm)
\* or desc.channels (qoi_read_to_pam)
DecodeOneShot(channels) ==
  /\ pc = "input"
  /\ desc.width > 0
  /\ channels \in {3, desc.channels}
  /\ enc' = qoi_encode(variant, pixels, desc, opt)
  /\ file' = enc'.bytes
  /\ req' = channels
  /\ dec' = qoi_decode(variant, file', Len(file'), channels)
  /\ pc' = "decoded1"
  /\ UNCHANGED <<variant, desc, opt, pixels, nseg, alt, fio>>

\* file_to_desc and qoi_read_to_file(fi, out_f, head, 0, &desc, channels, opt)
DecodeStreaming ==
  /\ pc = "decoded1"
  /\ fio' = IF file_to_desc_fails(variant, file) THEN FileReturn(1, <<>>, GoodEnv)
            ELSE qoi_read_to_file(variant, file, QOI_HEADER_SIZE, <<>>, HeaderDesc(file),
                                  req, opt, GoodEnv)
  /\ pc' = "decoded2"
  /\ UNCHANGED <<variant, desc, opt, pixels, nseg, enc, alt, req, dec, file>>

NextRead ==
  \/ \E g \in ReadSegments : AddSeg(g.c, g.d, g.k)
  \/ \E channels \in {3, 4} : DecodeOneShot(channels)
  \/ DecodeStreaming

SpecRead == Init /\ [][NextRead]_vars

\* C23: streaming decode equals one-shot decode: for every complete stream
\* of the encoder, the pixel bytes the chunked decoder writes to its sink,
\* put together over all passes of the refill/decode/flush/memmove loop, are
\* the pixel buffer the one-shot decoder returns for the same stream and
\* requested channel count, and the streaming decoder reports success
C23_StreamingDecodeEqualsOneShot ==
  (pc = "decoded2") =>
    /\ dec.ok
    /\ fio.ret = 0
    /\ fio.out = dec.pixels
    /\ Len(fio.out) = PixelCount * req

\* a stream longer than two input buffers, of an image larger than two output
\* buffers with a run across the first, has been decoded both ways
C23_Witness ==
  /\ pc = "decoded2"
  /\ PixelCount > 2 * CHUNK
  /\ Len(file) > 2 * CHUNK * (IF desc.channels = 3 THEN 2 ELSE 3)
  /\ Repeats(variant, pixels, CHUNK + 1, desc.channels)
  /\ fio.ret = 0

\* a stream of 4 channels has been decoded both ways to 3
C23_WitnessChannels ==
  /\ pc = "decoded2"
  /\ desc.channels = 4 /\ req = 3
  /\ PixelCount > CHUNK

(***************************************************************************)
(* qoi_read_to_file taken one pass of its loop at a time, on a complete    *)
(* stream of the encoder, on a stream cut at any byte, and on bytes of any *)
(* content behind a valid header; qoi_decode on the same bytes             *)
(***************************************************************************)
\* the segments of the images: runs of one pixel and of one more than the
\* output buffer holds, and ramps with the longest opcodes, with a changing
\* alpha, and with the shortest opcodes
PassSegments ==
  {[c |-> c, d |-> NoDelta, k |-> k] : c \in Colours, k \in {1, CHUNK + 1}}
    \cup {[c |-> c, d |-> d, k |-> CHUNK] :
            c \in Colours, d \in {Px(60, 40, 20, 0), Px(0, 0, 0, 3)}}
    \cup {[c |-> c, d |-> Px(1, 1, 0, 0), k |-> RampLen] : c \in Colours}

\* n times the bytes of u
RECURSIVE Times(_, _)
Times(u, n) == IF n = 0 THEN <<>> ELSE u \o Times(u, n - 1)

\* the number of bytes of the streams that are not the encoder's
BodyLen == 40

\* streams that are not the encoder's: the byte 255 alone, RGBA opcodes of the
\* R variant in front of an RGB opcode, RGB opcodes, RGBA opcodes of the Q
\* variant, and zeros
Bodies ==
  {Times(<<255>>, BodyLen),
   <<255, 7, 255, 9, 255, 11, 254, 1, 2, 3>> \o Times(<<0>>, BodyLen - 10),
   Times(<<255, 7>>, 2) \o Times(<<8>>, BodyLen - 4),
   Times(<<254, 1, 2, 3>>, BodyLen \div 4),
   Times(<<255, 1, 2, 3, 4>>, BodyLen \div 5),
   Times(<<0>>, BodyLen)}

\* what the memory behind the bytes present holds: zeros, or the byte 255
\* six times in front of them
Beyond == {Times(<<0>>, 12), Times(<<255>>, 6) \o Times(<<0>>, 6)}

\* the number of bytes cut from the end of a stream of the encoder
PassCuts(n) == 1..(n - QOI_HEADER_SIZE)

\* the caller stores a stream of the encoder
MakeStream(channels) ==
  /\ pc = "input"
  /\ desc.width > 0
  /\ channels \in {3, desc.channels}
  /\ enc' = qoi_encode(variant, pixels, desc, opt)
  /\ file' = enc'.bytes
  /\ alt' = [called |-> TRUE, ok |-> TRUE, kind |-> "complete"]
  /\ req' = channels
  /\ pc' = "file"
  /\ UNCHANGED <<variant, desc, opt, pixels, nseg, dec, fio>>

\* the caller stores a stream of the encoder without its last bytes
MakeCutStream(channels) ==
  /\ pc = "input"
  /\ desc.width > 0
  /\ channels \in {3, desc.channels}
  /\ enc' = qoi_encode(variant, pixels, desc, opt)
  /\ \E cut \in PassCuts(Len(enc'.bytes)) :
       file' = SubSeq(enc'.bytes, 1, Len(enc'.bytes) - cut)
  /\ alt' = [called |-> TRUE, ok |-> TRUE, kind |-> "cut"]
  /\ req' = channels
  /\ pc' = "file"
  /\ UNCHANGED <<variant, desc, opt, pixels, nseg, dec, fio>>

\* the caller stores the header of the image in front of other bytes
MakeBytes(channels, body) ==
  /\ pc = "input"
  /\ desc.width > 0
  /\ channels \in {3, desc.channels}
  /\ file' = qoi_encode_init(variant, desc).bytes \o body
  /\ alt' = [called |-> TRUE, ok |-> TRUE, kind |-> "bytes"]
  /\ req' = channels
  /\ pc' = "file"
  /\ UNCHANGED <<variant, desc, opt, pixels, nseg, enc, dec, fio>>

\* the decoder state of qoi_read_to_file in front of its loop
ReadState(d, channels) ==
  [bytes |-> <<>>, b |-> 0, px |-> Px(0, 0, 0, 255), index |-> ZeroIndex,
   b_limit |-> CHUNK * (IF d.channels = 3 THEN 2 ELSE 3),
   b_present |-> 0, p_limit |-> CHUNK * channels,
   px_pos |-> 0, run |-> 0,
   pixel_cnt |-> d.width * d.height, pixel_curr |-> 0, pixels |-> <<>>]

\* file_to_desc and qoi_read_to_file up to its loop; passes counts the passes
\* of the loop, at is the decoder state the last call of dec_arr returned
ReadOpen ==
  /\ pc = "file"
  /\ ~file_to_desc_fails(variant, file)
  /\ fio' = [ok |-> TRUE, pos |-> QOI_HEADER_SIZE, out |-> <<>>, cap |-> Roomy,
             s |-> ReadState(HeaderDesc(file), req),
             passes |-> 0, at |-> ReadState(HeaderDesc(file), req)]
  /\ pc' = "reading"
  /\ UNCHANGED <<variant, desc, opt, pixels, nseg, enc, alt, req, dec, file>>

\* the decoder state behind the fread of a pass, beyond being what the
\* memory behind the bytes present holds
ReadFilled(io, f, beyond) ==
  [io.s EXCEPT !.bytes = @ \o Fread(f, io.pos, io.s.b_limit - io.s.b_present) \o beyond,
               !.b_present = @ + Len(Fread(f, io.pos, io.s.b_limit - io.s.b_present))]

\* one pass of the loop of qoi_read_to_file: fread, dec_arr, fwrite, memmove.
\* A decoder that has read past the bytes present hands memmove a length
\* below zero, which is a length near 2^32 and ends the process
ReadPass ==
  /\ pc = "reading"
  /\ fio.ok
  /\ fio.s.pixel_curr # fio.s.pixel_cnt
  /\ fio.passes <= PixelCount + 1
  /\ \E beyond \in Beyond :
       LET s0 == ReadFilled(fio, file, beyond)
           s1 == dec_arr(variant, DEC_ARR_INDEX(desc.channels, req), s0)
           k == Len(Fread(file, fio.pos, fio.s.b_limit - fio.s.b_present))
       IN IF s1.b > s1.b_present
          THEN /\ fio' = [Fwrite([fio EXCEPT !.pos = @ + k], s1.pixels)
                            EXCEPT !.ok = FALSE, !.passes = @ + 1, !.at = s1]
               /\ pc' = "crashed"
          ELSE /\ fio' = [ReadDecoded(fio, k, [s1 EXCEPT !.bytes = SubSeq(@, 1, s1.b_present)])
                            EXCEPT !.passes = @ + 1, !.at = s1]
               /\ pc' = "reading"
  /\ UNCHANGED <<variant, desc, opt, pixels, nseg, enc, alt, req, dec, file>>

\* the loop has ended: return 0, or BADEXIT3 and return 1
ReadClose ==
  /\ pc = "reading"
  /\ ~fio.ok \/ fio.s.pixel_curr = fio.s.pixel_cnt
  /\ fio' = [fio EXCEPT !.ok = @ /\ fio.s.pixel_curr = fio.s.pixel_cnt]
  /\ pc' = "read"
  /\ UNCHANGED <<variant, desc, opt, pixels, nseg, enc, alt, req, dec, file>>

\* qoi_decode on the bytes of the file: the checks, and dec_arr with all the
\* bytes present
DecodeBytes ==
  /\ pc = "file"
  /\ Len(file) >= QOI_HEADER_SIZE + Len(qoi_padding)
  /\ ~qoi_decode_rejects(variant, file)
  /\ \E beyond \in Beyond :
       dec' = [called |-> TRUE, ok |-> TRUE,
               s |-> dec_arr(variant, DEC_ARR_INDEX(desc.channels, req),
                             [ReadState(HeaderDesc(file), req) EXCEPT
                                !.bytes = file \o beyond, !.b = QOI_HEADER_SIZE,
                                !.b_limit = Len(file), !.b_present = Len(file),
                                !.p_limit = PixelCount * req])]
  /\ pc' = "decoded"
  /\ UNCHANGED <<variant, desc, opt, pixels, nseg, enc, alt, req, file, fio>>

NextPasses ==
  \/ \E g \in PassSegments : AddSeg(g.c, g.d, g.k)
  \/ \E channels \in {3, 4} : MakeStream(channels)
  \/ \E channels \in {3, 4} : MakeCutStream(channels)
  \/ \E channels \in {3, 4}, body \in Bodies : MakeBytes(channels, body)
  \/ ReadOpen
  \/ ReadPass
  \/ ReadClose
  \/ DecodeBytes

SpecPasses == Init /\ [][NextPasses]_vars

\* the segments of the images of the fair specification: a run of one more
\* pixel than the output buffer holds, and ramps with the longest opcodes
\* and with a changing alpha
LoopSegments ==
  {[c |-> Px(130, 200, 7, 100), d |-> NoDelta, k |-> CHUNK + 1],
   [c |-> Px(0, 0, 0, 255), d |-> Px(60, 40, 20, 0), k |-> CHUNK],
   [c |-> Px(130, 200, 7, 100), d |-> Px(0, 0, 0, 3), k |-> CHUNK]}

NextLoop ==
  \/ \E g \in LoopSegments : AddSeg(g.c, g.d, g.k)
  \/ \E channels \in {3, 4} : MakeStream(channels)
  \/ \E channels \in {3, 4} : MakeCutStream(channels)
  \/ \E channels \in {3, 4}, body \in Bodies : MakeBytes(channels, body)
  \/ ReadOpen
  \/ ReadPass
  \/ ReadClose
  \/ DecodeBytes

\* a step of the loop of qoi_read_to_file can be taken: a pass, or its end
LoopEnabled ==
  /\ pc = "reading"
  /\ \/ fio.ok /\ fio.s.pixel_curr # fio.s.pixel_cnt /\ fio.passes <= PixelCount + 1
     \/ ~fio.ok \/ fio.s.pixel_curr = fio.s.pixel_cnt

\* the loop of qoi_read_to_file goes on until it has ended: the program runs
\* it without waiting for anything.  This is WF_vars(ReadPass \/ ReadClose)
\* with the condition under which one of the two can be taken written out
LoopFair == []<>(~LoopEnabled) \/ []<><<ReadPass \/ ReadClose>>_vars

SpecLoop == Init /\ [][NextLoop]_vars /\ LoopFair

RECURSIVE OpStarts(_, _, _)
\* the C indices from p on at which an opcode of the stream f starts, the
\* RGBA opcode of the R variant taken with the colour opcode behind it; the
\* index behind the last whole opcode is one of them
OpStarts(v, f, p) ==
  IF p >= Len(f) THEN {p}
  ELSE LET b1 == f[p + 1]
           len == IF v = "R" /\ b1 = R_QOI_OP_RGBA
                  THEN IF p + 2 < Len(f) THEN 2 + OpLength(v, f[p + 3]) ELSE 2
                  ELSE OpLength(v, b1)
       IN IF p + len > Len(f) THEN {p} ELSE {p} \cup OpStarts(v, f, p + len)

\* the place in the file of the read cursor of the decoder state s, io.pos
\* bytes of the file having been read
CursorInFile(io, s) == io.pos - (s.b_present - s.b)

C24_WitnessCut ==
  /\ pc = "reading"
  /\ alt.kind = "cut"
  /\ variant = "Q"
  /\ fio.passes >= 1
  /\ fio.at.run > 0

\* a pass of the loop of qoi_read_to_file is taken
PassTaken == pc = "reading" /\ fio'.passes = fio.passes + 1

\* a pass has more pixels decoded than there were, or ends the loop as
\* failed; and there are never more than width*height+1 passes
PassAdvances ==
  PassTaken =>
    /\ fio'.at.pixel_curr > fio.s.pixel_curr \/ ~fio'.ok
    /\ fio'.at.pixel_curr = fio.s.pixel_curr => (~fio'.ok /\ Len(fio'.out) = Len(fio.out))
    /\ fio'.at.pixel_curr >= fio.s.pixel_curr
    /\ fio'.passes <= PixelCount + 1

\* the loop of qoi_read_to_file has ended
ReadEnded == pc \in {"read", "crashed"}

C25_WitnessBytes ==
  /\ pc = "read"
  /\ alt.kind = "bytes"
  /\ ~fio.ok
  /\ fio.passes >= 2

\* a complete stream has ended with all its pixels in three passes or more
C25_WitnessComplete ==
  /\ pc = "read"
  /\ alt.kind = "complete"
  /\ fio.ok
  /\ fio.passes >= 3

\* the decoder state s, as a call of dec_arr has returned it, has its read
\* cursor within the bytes present, so that no byte at an index of b_present
\* or more was read, and its write cursor within the output buffer
WithinBounds(s) ==
  /\ s.b <= s.b_present
  /\ s.px_pos <= s.p_limit
  /\ Len(s.pixels) <= s.p_limit

\* C26: decoder read bound on arbitrary input: for any byte content behind a
\* valid header the R and Q decoders never read a byte at an index that is
\* not below the bytes present and never write past the output buffer; the
\* loop guard of the longest opcode plus one (6 in R, 5 in Q) is enough for
\* every opcode sequence, consecutive RGBA opcodes in R included
C26_ReadBound ==
  /\ (pc \in {"reading", "read", "crashed"} /\ fio.passes > 0) => WithinBounds(fio.at)
  /\ (pc = "decoded") => WithinBounds(dec.s)

\* what the decoders keep: the write bound always; the read bound in the Q
\* variant, for a 3-channel input, and on the streams of the encoder, whole
\* or cut, where a colour opcode follows every RGBA opcode
C26_BoundAsCoded ==
  /\ (pc \in {"reading", "read", "crashed"} /\ fio.passes > 0) =>
       /\ fio.at.px_pos <= fio.at.p_limit
       /\ (variant = "Q" \/ desc.channels = 3 \/ alt.kind # "bytes") => WithinBounds(fio.at)
  /\ (pc = "decoded") =>
       /\ Len(dec.s.pixels) <= dec.s.p_limit
       /\ (variant = "Q" \/ desc.channels = 3 \/ alt.kind # "bytes") => WithinBounds(dec.s)

\* the 4-channel decoder of the R variant has gone through RGBA opcodes past
\* the bytes present in a pass of the streaming loop
C26_Witness ==
  /\ pc = "crashed"
  /\ variant = "R"
  /\ desc.channels = 4
  /\ alt.kind = "bytes"
  /\ fio.at.b > fio.at.b_present

\* the same in qoi_decode
C26_WitnessOneShot ==
  /\ pc = "decoded"
  /\ variant = "R"
  /\ desc.channels = 4
  /\ dec.s.b > dec.s.b_present

\* the Q decoder has read bytes that are not the encoder's and stopped
\* within the bytes present
C26_WitnessQ ==
  /\ pc = "decoded"
  /\ variant = "Q"
  /\ alt.kind = "bytes"
  /\ dec.s.pixel_curr > 0
  /\ dec.s.b <= dec.s.b_present

(***************************************************************************)
(* The two decode entry points on the same header: qoi_decode and          *)
(* qoi_read_to_ppm on a forged stream                                      *)
(***************************************************************************)
\* the widths and heights of the headers: none, few pixels, and pixel counts
\* at the limit of QOI_PIXELS_MAX and above it
EntryDims ==
  {<<0, 1>>, <<1, 0>>, <<1, 1>>, <<2, 1>>, <<2, 2>>,
   <<20000, 19999>>, <<20000, 20000>>, <<QOI_PIXELS_MAX, 1>>, <<1, QOI_PIXELS_MAX>>,
   <<QOI_PIXELS_MAX + 1, 1>>, <<2, QOI_PIXELS_MAX \div 2>>}

\* qoi_read_to_ppm(qoi_f, ppm_f, &opt) on the file qoi_decode was given
ReadFile ==
  /\ pc = "parsed"
  /\ fio' = qoi_read_to_ppm(variant, file, opt, GoodEnv)
  /\ pc' = "streamed"
  /\ UNCHANGED <<variant, desc, opt, pixels, nseg, enc, alt, req, dec, file>>

NextEntry ==
  \/ \E m \in Magics, d \in EntryDims, ch \in HeaderChannels, cs \in HeaderColorspaces :
       Forge(m, d[1], d[2], ch, cs)
  \/ DecodeFile(3)
  \/ ReadFile

SpecEntry == Init /\ [][NextEntry]_vars

\* the pixel bytes qoi_read_to_ppm has written: what lies behind the head
StreamedPixels == Len(fio.out) - Len(PpmHead(FileWidth, FileHeight))

\* C27: validation is the same on both decode entry points: every header the
\* one-shot decoder rejects (zero width or height, channels not 3 or 4,
\* colorspace out of range, wrong magic, width*height at or above the pixel
\* limit) is also rejected by the streaming decoder, before it produces any
\* pixel output
C27_SameValidation ==
  (pc = "streamed" /\ ~dec.ok) => (fio.ret = 1 /\ fio.out = <<>>)

\* what the streaming decoder does: it has no pixel limit, so it rejects the
\* headers qoi_decode rejects for another reason and decodes those of too
\* many pixels, as it does those qoi_decode accepts
C27_ValidationAsCoded ==
  (pc = "streamed") =>
    LET defect ==
          \/ FileWidth = 0
          \/ FileHeight = 0
          \/ FileChannels \notin {3, 4}
          \/ FileColorspace > 3
          \/ FileMagic # QOI_MAGIC(variant)
    IN /\ defect => (~dec.ok /\ fio.ret = 1 /\ fio.out = <<>>)
       /\ ~defect => StreamedPixels > 0
       /\ (~defect /\ ~dec.ok) => FileHeight >= QOI_PIXELS_MAX \div FileWidth

\* a header of 20000 x 20000 pixels, which qoi_decode rejects, has had pixels
\* written by qoi_read_to_ppm
C27_Witness ==
  /\ pc = "streamed"
  /\ FileWidth = 20000 /\ FileHeight = 20000
  /\ FileChannels \in {3, 4} /\ FileColorspace <= 3 /\ FileMagic = QOI_MAGIC(variant)
  /\ ~dec.ok
  /\ StreamedPixels > 0

\* a header with another defect has been rejected by both
C27_WitnessRejected ==
  /\ pc = "streamed"
  /\ FileChannels = 5
  /\ ~dec.ok
  /\ fio.ret = 1 /\ fio.out = <<>>

(***************************************************************************)
(* SSE_COMMON on planes of deltas: the sixteen lanes hold sixteen values   *)
(* of vg in a row, each with the same vg_r and vg_b                        *)
(***************************************************************************)
\* the values of vg_r and vg_b: the ends of the range of a signed char and
\* the values at the limits of the opcodes
LaneDeltas == {-128, -65, -64, -9, -8, -3, -2, -1, 0, 1, 2, 7, 8, 63, 64, 127}

\* the first vg of a block of sixteen: all of -128..127 is gone through
LaneStarts == {16 * k - 128 : k \in 0..15}

InitLanes == Init /\ variant = "R" /\ desc.channels = 3

\* the planes vr, vg, vb of a block whose lane i holds vg = g0 + i and the
\* differences vg_r and vg_b, handed to SSE_COMMON
Classify(g0, vg_r, vg_b) ==
  /\ pc = "input"
  /\ alt' = [called |-> TRUE, ok |-> TRUE,
             vg_r |-> vg_r, vg_b |-> vg_b,
             g |-> [i \in Lanes |-> UChar(g0 + i)],
             c |-> SSE_COMMON([i \in Lanes |-> UChar(g0 + i + vg_r)],
                              [i \in Lanes |-> UChar(g0 + i)],
                              [i \in Lanes |-> UChar(g0 + i + vg_b)])]
  /\ pc' = "classified"
  /\ UNCHANGED <<variant, desc, opt, pixels, nseg, enc, req, dec, file, fio>>

NextLanes == \E g0 \in LaneStarts, vg_r \in LaneDeltas, vg_b \in LaneDeltas : Classify(g0, vg_r, vg_b)

SpecLanes == InitLanes /\ [][NextLanes]_vars

\* the masks op1..op4 of lane i of a result of SSE_COMMON
LaneOps(c, i) == <<c.op1[i], c.op2[i], c.op3[i], c.op4[i]>>

\* the masks with the one of class k set and the others clear
OneOp(k) == [j \in 1..4 |-> IF j = k THEN 255 ELSE 0]

\* C28: SIMD per-lane classification equals scalar: in every lane, for the
\* deltas (vg, vg_r, vg_b) in -128..127, exactly one of the masks op1..op4 is
\* set, and it is the one of the class the conditions of RGB_ENC_SCALAR give
\* (arb<2 and ag<4; arb<8 and ag<32; (arb|ag)<64; otherwise)
C28_LaneClassification ==
  (pc = "classified") =>
    \A i \in Lanes :
      /\ alt.c.g[i] = alt.g[i]
      /\ SChar(alt.c.r[i]) = alt.vg_r
      /\ SChar(alt.c.b[i]) = alt.vg_b
      /\ LaneOps(alt.c, i) = OneOp(R_OpClass(SChar(alt.g[i]), alt.vg_r, alt.vg_b))

\* a block has been classified with a lane of vg = -4 in the first class and
\* a lane of vg = -5 in the second: the bias of the negative values decides
C28_Witness ==
  /\ pc = "classified"
  /\ \E i \in Lanes : SChar(alt.g[i]) = -4 /\ LaneOps(alt.c, i) = OneOp(1)
  /\ \E i \in Lanes : SChar(alt.g[i]) = -5 /\ LaneOps(alt.c, i) = OneOp(2)

\* a block with vg = -128 and vg_r = vg_b = -128 has been classified
C28_WitnessEnds ==
  /\ pc = "classified"
  /\ alt.vg_r = -128 /\ alt.vg_b = -128
  /\ SChar(alt.g[0]) = -128
  /\ LaneOps(alt.c, 0) = OneOp(4)

(***************************************************************************)
(* The tables of the quick writer: SSE_QUICK looks up the shuffle and the  *)
(* length of a group of four pixels at an 8-bit index                      *)
(***************************************************************************)
\* the values of (lut_index)&255 and (lut_index>>8)&255
LutIndexes == 0..255

\* w1=_mm_loadu_si128((__m128i const*)(writer_lut)+index) and
\* writer_len[index], as SSE_QUICK reads them
Lookup(i) ==
  /\ pc = "input"
  /\ alt' = [called |-> TRUE, ok |-> TRUE, i |-> i,
             lut |-> WriterLutVec(i), len |-> writer_len[i + 1]]
  /\ pc' = "looked"
  /\ UNCHANGED <<variant, desc, opt, pixels, nseg, enc, req, dec, file, fio>>

NextTables == \E i \in LutIndexes : Lookup(i)

SpecTables == InitLanes /\ [][NextTables]_vars

\* the length of the opcode of pixel k of the group at index i
PixelLen(i, k) == 1 + BitAnd(Shr(i, 2 * k), 3)

\* the place in the stored vector of byte j (from 0) of the compacted
\* opcodes of index i: the bytes of pixel k are those from 4k on
RECURSIVE PackedFrom(_, _, _)
PackedFrom(i, j, k) ==
  IF j < PixelLen(i, k) THEN 4 * k + j ELSE PackedFrom(i, j - PixelLen(i, k), k + 1)

\* C29: quick-path compaction tables: for every 8-bit index i the pixel k of
\* the group has l_k = 1 + ((i >> 2k) & 3) bytes, writer_len[i] is the sum of
\* the l_k, and the first writer_len[i] entries of writer_lut from 16*i on
\* are, in order, the byte positions 4k .. 4k+l_k-1 of the pixels k = 0..3
C29_CompactionTables ==
  (pc = "looked") =>
    /\ alt.len = PixelLen(alt.i, 0) + PixelLen(alt.i, 1) + PixelLen(alt.i, 2) + PixelLen(alt.i, 3)
    /\ alt.len \in 4..16
    /\ \A j \in 0..(alt.len - 1) : alt.lut[j] = PackedFrom(alt.i, j, 0)

\* the tables have been read at index 228: the four pixels have 1, 2, 3 and
\* 4 bytes, 10 in all
C29_Witness ==
  /\ pc = "looked"
  /\ alt.i = 228
  /\ alt.len = 10
  /\ <<PixelLen(228, 0), PixelLen(228, 1), PixelLen(228, 2), PixelLen(228, 3)>> = <<1, 2, 3, 4>>
  /\ [j \in 0..9 |-> alt.lut[j]] = [j \in 0..9 |-> <<0, 4, 5, 8, 9, 10, 12, 13, 14, 15>>[j + 1]]

(***************************************************************************)
(* codegen.c: gen_runwriter_data fills the tables of the run writer, one   *)
(* configuration of four lanes in each pass of its loops                   *)
(***************************************************************************)
\* the number of entries of the tables
RunwriterEntries == 641

\* an index taken modulo 640
RunwriterIndex_640(a, b, c, d) == (d * 16777216 + c * 65536 + b * 256 + a) % 640

\* i=(d<<24)|(c<<16)|(b<<8)|(a); index=i%641
RunwriterIndex(a, b, c, d) == (d * 16777216 + c * 65536 + b * 256 + a) % RunwriterEntries

\* uint8_t shuf[641<<4]={0}; uint8_t pre[641]={0}, mid[641]={0},
\* post[641]={0}, len[641]={0}; and the counters of the four loops
RunwriterZero ==
  [called |-> TRUE, ok |-> TRUE, a |-> 0, b |-> 0, c |-> 0, d |-> 0,
   pre |-> [x \in 0..(RunwriterEntries - 1) |-> 0],
   mid |-> [x \in 0..(RunwriterEntries - 1) |-> 0],
   post |-> [x \in 0..(RunwriterEntries - 1) |-> 0],
   len |-> [x \in 0..(RunwriterEntries - 1) |-> 0],
   shuf |-> [x \in 0..(RunwriterEntries - 1) |-> [y \in 0..15 |-> 0]]]

\* the bytes loc, loc+1, ... marked for a lane of n bytes, one more if a run
\* behind it is written
Marked(loc, n, more) == [x \in 1..(n + (IF more THEN 1 ELSE 0)) |-> loc + x - 1]

\* the body of the loops for the configuration (a, b, c, d), which is not
\* the one of four runs; the asserts end the program when they fail
gen_runwriter_entry(t, a, b, c, d) ==
  LET index == RunwriterIndex(a, b, c, d)
      pre == t.pre[index] + (IF a # 0 THEN 0 ELSE IF b # 0 THEN 1 ELSE IF c # 0 THEN 2 ELSE 3)
      post == t.post[index] + (IF d # 0 THEN 0 ELSE IF c # 0 THEN 1 ELSE IF b # 0 THEN 2 ELSE 3)
      mid1 == IF b # 0 /\ c = 0 /\ d # 0 THEN 48 ELSE t.mid[index]
      mid2 == IF a # 0 /\ b = 0 /\ c # 0 THEN 16 ELSE mid1
      mid == IF a # 0 /\ b = 0 /\ c = 0 /\ d # 0 THEN 32 ELSE mid2
      tmp == Marked(0, a, FALSE) \o Marked(4, b, mid = 16 \/ mid = 32)
               \o Marked(8, c, mid = 48) \o Marked(12, d, FALSE)
      written == Len(tmp)
  IN [t EXCEPT !.ok = @ /\ ~(b # 0 /\ (mid = 16 \/ mid = 32)) /\ ~(c # 0 /\ mid = 48),
               !.pre[index] = UChar(pre),
               !.post[index] = UChar(post),
               !.mid[index] = mid,
               !.len[index] = written,
               !.shuf[index] = [y \in 0..15 |-> IF y < written THEN tmp[y + 1] ELSE 0]]

\* the counters of for(a...){for(b...){for(c...){for(d=0;d<5;++d){ after a
\* pass; a = 5 ends the loops
NextConfig(t) ==
  IF t.d < 4 THEN [t EXCEPT !.d = @ + 1]
  ELSE IF t.c < 4 THEN [t EXCEPT !.d = 0, !.c = @ + 1]
  ELSE IF t.b < 4 THEN [t EXCEPT !.d = 0, !.c = 0, !.b = @ + 1]
  ELSE [t EXCEPT !.d = 0, !.c = 0, !.b = 0, !.a = @ + 1]

\* main calls gen_runwriter_data: the tables are zeroed
GenStart ==
  /\ pc = "input"
  /\ alt' = RunwriterZero
  /\ pc' = "generating"
  /\ UNCHANGED <<variant, desc, opt, pixels, nseg, enc, req, dec, file, fio>>

\* one pass of the innermost loop: if(!(a+b+c+d)) continue; or the entry of
\* the configuration is written
GenEntry ==
  /\ pc = "generating"
  /\ alt.ok
  /\ alt.a < 5
  /\ alt' = NextConfig(IF alt.a + alt.b + alt.c + alt.d = 0 THEN alt
                       ELSE gen_runwriter_entry(alt, alt.a, alt.b, alt.c, alt.d))
  /\ UNCHANGED <<pc, variant, desc, opt, pixels, nseg, enc, req, dec, file, fio>>

\* the loops are over and the tables are printed, or an assert has failed
GenEnd ==
  /\ pc = "generating"
  /\ ~alt.ok \/ alt.a = 5
  /\ pc' = IF alt.ok THEN "generated" ELSE "aborted"
  /\ UNCHANGED <<variant, desc, opt, pixels, nseg, enc, alt, req, dec, file, fio>>

NextCodegen ==
  \/ GenStart
  \/ GenEntry
  \/ GenEnd

SpecCodegen == InitLanes /\ [][NextCodegen]_vars

\* the configurations of four lanes, each a run (0) or an opcode of 1..4
\* bytes, that are not four runs
LaneConfigs == {q \in [1..4 -> 0..4] : \E j \in 1..4 : q[j] # 0}

\* the configurations the loops have gone through when the counters are t
Generated(t) ==
  {q \in LaneConfigs :
     q[1] * 125 + q[2] * 25 + q[3] * 5 + q[4] < t.a * 125 + t.b * 25 + t.c * 5 + t.d}

\* the lanes of q in front of its first opcode, and behind its last one
LeadingRuns(q) == Cardinality({j \in 1..4 : \A x \in 1..j : q[x] = 0})
TrailingRuns(q) == Cardinality({j \in 1..4 : \A x \in j..4 : q[x] = 0})

\* q has a run with an opcode somewhere in front of it and one behind it
EnclosedRun(q) ==
  \E j \in 2..3 : q[j] = 0 /\ (\E x \in 1..(j - 1) : q[x] # 0) /\ (\E x \in (j + 1)..4 : q[x] # 0)

ConfigIndex(q) == RunwriterIndex(q[1], q[2], q[3], q[4])

\* C30: runwriter table generation: every legal configuration of four lanes
\* (each lane a run or an opcode of 1..4 bytes, not all four of them runs)
\* gets a table index of its own below 641, no two of the 624 configurations
\* having the same; the length entry at it is the number of bytes of the
\* lanes that are not runs plus one byte for a run enclosed between two such
\* lanes; pre and post are the numbers of run lanes in front and at the end
C30_RunwriterTables ==
  (pc \in {"generating", "generated"}) =>
    /\ alt.ok
    /\ \A q \in Generated(alt) :
         /\ ConfigIndex(q) < RunwriterEntries
         /\ alt.len[ConfigIndex(q)] =
              q[1] + q[2] + q[3] + q[4] + (IF EnclosedRun(q) THEN 1 ELSE 0)
         /\ alt.pre[ConfigIndex(q)] = LeadingRuns(q)
         /\ alt.post[ConfigIndex(q)] = TrailingRuns(q)
    /\ (pc = "generated") =>
         /\ Generated(alt) = LaneConfigs
         /\ Cardinality(LaneConfigs) = 624
         /\ Cardinality({ConfigIndex(q) : q \in LaneConfigs}) = 624

\* the tables are complete, with the entry of an opcode, two runs and an
\* opcode: 3 + 4 bytes and one for the run, nothing in front or at the end
C30_Witness ==
  /\ pc = "generated"
  /\ alt.len[RunwriterIndex(3, 0, 0, 4)] = 8
  /\ alt.mid[RunwriterIndex(3, 0, 0, 4)] = 32
  /\ alt.pre[RunwriterIndex(0, 0, 2, 0)] = 2
  /\ alt.post[RunwriterIndex(0, 0, 2, 0)] = 1

====
